---------------------------- MODULE Spec2Model ----------------------------
(***************************************************************************)
(* A model of the FHIR loader (src/fhir-loader/load_fhir.py): the batched  *)
(* stream of source bundles, the eligibility gate, the bundle dependency   *)
(* resolver (stub injection, reordering, reference map, reference          *)
(* rewriting), the transactional splitter and the processor loop that      *)
(* composes them; of main, with its two retry loops for role-assignment   *)
(* propagation; and of the vital-signs simulator (src/emulator.py), whose  *)
(* readings are counted in thousandths.                                    *)
(*                                                                         *)
(* Python strings are TLA+ strings; the string methods the code uses       *)
(* (startswith, in, replace, split, lower) are defined character by        *)
(* character. A resource is the record of the fields the loader reads: its *)
(* resourceType, its id ("" when absent), its identifier list, `refs`, the *)
(* values of its string-valued `reference` keys in traversal order (the    *)
(* recursive walks over dicts and lists visit exactly those), its          *)
(* birthDate, the place of serviceProvider.reference among refs and the    *)
(* list code.coding. A batch is the list of the places in the listing of   *)
(* the documents it holds.                                                 *)
(***************************************************************************)
EXTENDS Integers, Sequences, FiniteSets, TLC

VARIABLES
    pc,          \* position of process_synthea_bundles in its loops
    json_blobs,  \* the listing of the container: what each blob's download gives
    batch_size,  \* batch_size of stream_synthea_bundles
    next_blob,   \* the blobs the generator's loop has passed
    batch,       \* the generator's batch, the consumer's once it is yielded: the
                 \* places in the listing of the documents it holds
    batch_pos,   \* the bundles of the yielded batch the consumer has taken
    gen,         \* position of the generator stream_synthea_bundles
    bundle,      \* the bundle being processed (mutated in place by the stages)
    patient,     \* the processor's patient: <<>> for None, else <<resource>>
    ref_map,     \* the conditional-reference map of the current bundle
    sub_bundles, \* the result of split_bundle_entries in the processor
    next_sub,    \* index of the next sub-bundle to post
    uploaded_count,      \* process_synthea_bundles' counter of uploaded bundles
    skipped_choa_adult,  \* its counter of bundles the CHOA gate passed over
    qualifying_patients, \* the list it returns
    source,      \* the bundle as it was received (history)
    before,      \* the entries as they were when the rewrite loop started (history)
    posted,      \* the sub-bundles of the current bundle that post_bundle
                 \* accepted, in submission order (history)
    stages,      \* the stages performed on the current bundle, in order (history)
    decided,     \* the eligibility decisions made about it (history)
    delivered,   \* the batches yielded so far, each as the places of its
                 \* documents in the listing (history)
    outcomes,    \* how the loop body ended for each bundle so far (history)
    split_in,    \* the arguments of a direct call of split_bundle_entries
    split_out,   \* the outcome of that call
    fhir_calls,  \* how each client.get_count of main's connection test ended
    list_calls,  \* how each attempt of the generator to list the container ended
    sleeps,      \* the calls of time.sleep of the two retry loops, in order
    device_count, \* DEVICE_COUNT, as read from the environment at import
    simulators,  \* the emulator's MasimoSimulator of each device
    rng,         \* the state of the emulator's module-wide random generator
    turn,        \* the place in DEVICE_IDS of the emulator's loop over the devices
    payload      \* what generate_reading returned last

streamVars == <<json_blobs, batch_size, next_blob, batch, batch_pos, gen, delivered>>

bundleVars == <<bundle, patient, ref_map, sub_bundles, next_sub, source, before, posted,
                stages, decided>>

resultVars == <<uploaded_count, skipped_choa_adult, qualifying_patients, outcomes>>

splitVars == <<split_in, split_out>>

mainVars == <<fhir_calls, list_calls, sleeps, device_count>>

emulatorVars == <<simulators, rng, turn, payload>>

vars == <<pc, streamVars, bundleVars, resultVars, splitVars, mainVars, emulatorVars>>

---------------------------------------------------------------------------
(* Python string methods *)

\* s[i:] for a 1-based i
StrFrom(s, i) == SubSeq(s, i, Len(s))

\* s.startswith(p)
StartsWith(s, p) == Len(s) >= Len(p) /\ SubSeq(s, 1, Len(p)) = p

\* the 1-based position of the first occurrence of p in s, 0 when there is none
\* (s.find(p) + 1)
Find(s, p) ==
    LET hits == {i \in 1..(Len(s) + 1) :
                    i + Len(p) - 1 <= Len(s) /\ SubSeq(s, i, i + Len(p) - 1) = p}
    IN IF hits = {} THEN 0 ELSE CHOOSE i \in hits : \A j \in hits : i <= j

\* the position of the last occurrence of p in s, 0 when there is none
FindLast(s, p) ==
    LET hits == {i \in 1..(Len(s) + 1) :
                    i + Len(p) - 1 <= Len(s) /\ SubSeq(s, i, i + Len(p) - 1) = p}
    IN IF hits = {} THEN 0 ELSE CHOOSE i \in hits : \A j \in hits : i >= j

\* p in s
Contains(s, p) == Find(s, p) # 0

\* s.replace(old, new): every non-overlapping occurrence, left to right
RECURSIVE Replace(_, _, _)
Replace(s, old, new) ==
    LET i == Find(s, old)
    IN IF i = 0 THEN s
       ELSE SubSeq(s, 1, i - 1) \o new \o Replace(StrFrom(s, i + Len(old)), old, new)

\* s.split(sep)[-1]
SplitLast(s, sep) ==
    LET i == FindLast(s, sep)
    IN IF i = 0 THEN s ELSE StrFrom(s, i + Len(sep))

\* s.split(sep, 1): one part when sep does not occur, else two
SplitOnce(s, sep) ==
    LET i == Find(s, sep)
    IN IF i = 0 THEN <<s>> ELSE <<SubSeq(s, 1, i - 1), StrFrom(s, i + Len(sep))>>

\* s.split(sep): every part, left to right
RECURSIVE Split(_, _)
Split(s, sep) ==
    LET i == Find(s, sep)
    IN IF i = 0 THEN <<s>>
       ELSE <<SubSeq(s, 1, i - 1)>> \o Split(StrFrom(s, i + Len(sep)), sep)


\* the percent escapes of the model's strings and the characters they stand for
PercentCodes == <<<<"%7C", "|">>, <<"%7c", "|">>, <<"%3D", "=">>, <<"%26", "&">>,
                  <<"%20", " ">>>>

\* urllib.parse.unquote: each %XX escape becomes its character; a % that starts
\* no escape stays as it is
RECURSIVE Unquote(_)
Unquote(s) ==
    LET i == Find(s, "%")
        hit == {k \in 1..Len(PercentCodes) : PercentCodes[k][1] = SubSeq(s, i, i + 2)}
    IN IF i = 0 THEN s
       ELSE IF hit = {} THEN SubSeq(s, 1, i) \o Unquote(StrFrom(s, i + 1))
       ELSE SubSeq(s, 1, i - 1) \o PercentCodes[CHOOSE k \in hit : TRUE][2]
                \o Unquote(StrFrom(s, i + 3))

\* urllib.parse.parse_qsl (keep_blank_values off, strict_parsing off): the
\* (name, value) pairs of a query string, blank values dropped, '+' and percent
\* escapes decoded
RECURSIVE ParseQsl(_)
ParseQsl(parts) ==
    IF parts = <<>> THEN <<>>
    ELSE LET nv == SplitOnce(Head(parts), "=")
         IN (IF Len(nv) = 2 /\ Len(nv[2]) > 0
                THEN <<[name  |-> Unquote(Replace(nv[1], "+", " ")),
                        value |-> Unquote(Replace(nv[2], "+", " "))]>>
                ELSE <<>>)
            \o ParseQsl(Tail(parts))

\* urllib.parse.parse_qs(qs).get(name, [''])[0]
ParseQsFirst(qs, name) ==
    LET hits == SelectSeq(ParseQsl(Split(qs, "&")), LAMBDA p : p.name = name)
    IN IF hits = <<>> THEN "" ELSE hits[1].value

\* the characters of the model's strings; a character's place in it is its code
Alphabet == "abcdefghijklmnopqrstuvwxyzABCDEFGHIJKLMNOPQRSTUVWXYZ0123456789:/?=|&%+-_. []"

CharCode(c) == CHOOSE i \in 1..Len(Alphabet) : SubSeq(Alphabet, i, i) = c

\* hashlib.md5(s.encode()).hexdigest(), as an injective digest over digits: two
\* digits per character of s (md5 is taken to be collision-free, and its output
\* holds none of the characters the string tests of the resolver look for)
RECURSIVE Md5Hex(_)
Md5Hex(s) ==
    IF s = "" THEN ""
    ELSE LET c == CharCode(SubSeq(s, 1, 1))
         IN ToString(c \div 10) \o ToString(c % 10) \o Md5Hex(StrFrom(s, 2))

\* f"{uuid[:8]}-{uuid[8:12]}-{uuid[12:16]}-{uuid[16:20]}-{uuid[20:32]}": the last
\* group is the rest of the digest
UuidFormatted(uuid) ==
    SubSeq(uuid, 1, 8) \o "-" \o SubSeq(uuid, 9, 12) \o "-" \o SubSeq(uuid, 13, 16)
        \o "-" \o SubSeq(uuid, 17, 20) \o "-" \o StrFrom(uuid, 21)

---------------------------------------------------------------------------
(* The resolver's leaf functions *)

URN == "urn:uuid:"

NPI_SYSTEM == "http://hl7.org/fhir/sid/us-npi"

NoRequest == [method |-> "", url |-> ""]

Entry(fullUrl, resource) ==
    [fullUrl |-> fullUrl, resource |-> resource, request |-> NoRequest]

\* birthDate is "" when absent; serviceProvider is the place in refs of the
\* value of serviceProvider.reference, 0 when the resource has none; coding is
\* the list code.coding
Resource(resourceType, id, identifier, refs) ==
    [resourceType |-> resourceType, id |-> id, identifier |-> identifier,
     refs |-> refs, birthDate |-> "", serviceProvider |-> 0, coding |-> <<>>]

Identifier(system, value) == [system |-> system, value |-> value]

is_conditional_reference(ref) == Contains(ref, "?")

\* a rewriter that strips the prefix only where the reference starts with it
transform_urn_uuid_reference_leading_only(ref) ==
    IF StartsWith(ref, URN) THEN StrFrom(ref, Len(URN) + 1) ELSE ref

transform_urn_uuid_reference(ref) ==
    IF Contains(ref, URN) THEN Replace(ref, URN, "") ELSE ref

\* the set of conditional references of a resource
extract_conditional_refs_from_resource(resource) ==
    {resource.refs[i] : i \in {j \in DOMAIN resource.refs :
                                  is_conditional_reference(resource.refs[j])}}

\* a synthesizer whose stub declares its NPI under a system other than the one
\* the references name
create_practitioner_from_npi_short_system(npi) ==
    Resource("Practitioner",
             UuidFormatted(Md5Hex("practitioner-npi-" \o npi)),
             <<Identifier("us-npi", npi)>>, <<>>)

create_practitioner_from_npi(npi) ==
    Resource("Practitioner",
             UuidFormatted(Md5Hex("practitioner-npi-" \o npi)),
             <<Identifier(NPI_SYSTEM, npi)>>, <<>>)

\* <<>> stands for None, <<r>> for the resource r
create_location_from_ref(location_ref) ==
    LET parts == SplitOnce(location_ref, "?")
        identifier_value == ParseQsFirst(parts[2], "identifier")
        sv == SplitOnce(identifier_value, "|")
    IN IF ~Contains(location_ref, "?") THEN <<>>
       ELSE IF identifier_value = "" \/ ~Contains(identifier_value, "|") THEN <<>>
       ELSE <<Resource("Location",
                       UuidFormatted(Md5Hex("location-" \o sv[1] \o "-" \o sv[2])),
                       <<Identifier(sv[1], sv[2])>>, <<>>)>>

create_organization_from_ref(org_ref) ==
    LET parts == SplitOnce(org_ref, "?")
        identifier_value == ParseQsFirst(parts[2], "identifier")
        sv == SplitOnce(identifier_value, "|")
    IN IF ~Contains(org_ref, "?") THEN <<>>
       ELSE IF identifier_value = "" \/ ~Contains(identifier_value, "|") THEN <<>>
       ELSE <<Resource("Organization",
                       UuidFormatted(Md5Hex("organization-" \o sv[1] \o "-" \o sv[2])),
                       <<Identifier(sv[1], sv[2])>>, <<>>)>>

---------------------------------------------------------------------------
(* Stub injection *)

\* every conditional reference of the bundle's entries
BundleConditionalRefs(entries) ==
    UNION {extract_conditional_refs_from_resource(entries[i].resource) :
              i \in DOMAIN entries}

NPI_PREFIX == "Practitioner?identifier=http://hl7.org/fhir/sid/us-npi|"

practitioner_npis(entries) ==
    {SplitLast(ref, "|") : ref \in {r \in BundleConditionalRefs(entries) :
                                       StartsWith(r, NPI_PREFIX)}}

\* a grouping that looks for a Direct-shaped prefix and so collects no Location
\* query
location_refs_direct_prefix(entries) ==
    {r \in BundleConditionalRefs(entries) :
        ~StartsWith(r, NPI_PREFIX) /\ StartsWith(r, "Location/")}

location_refs(entries) ==
    {r \in BundleConditionalRefs(entries) :
        ~StartsWith(r, NPI_PREFIX) /\ StartsWith(r, "Location?")}

organization_refs(entries) ==
    {r \in BundleConditionalRefs(entries) :
        ~StartsWith(r, NPI_PREFIX) /\ ~StartsWith(r, "Location?")
            /\ StartsWith(r, "Organization?")}

\* the orders in which iterating a set can deliver its elements
Orderings(S) ==
    {f \in [1..Cardinality(S) -> S] : \A i, j \in DOMAIN f : f[i] = f[j] => i = j}

StubEntry(resource) == Entry(URN \o resource.id, resource)

RECURSIVE OrganizationStubs(_)
OrganizationStubs(refs) ==
    IF refs = <<>> THEN <<>>
    ELSE LET org == create_organization_from_ref(Head(refs))
         IN (IF org # <<>> THEN <<StubEntry(org[1])>> ELSE <<>>)
            \o OrganizationStubs(Tail(refs))

RECURSIVE PractitionerStubs(_)
PractitionerStubs(npis) ==
    IF npis = <<>> THEN <<>>
    ELSE <<StubEntry(create_practitioner_from_npi(Head(npis)))>>
            \o PractitionerStubs(Tail(npis))

\* a synthesizer that numbers its Location stubs in the order it makes them
RECURSIVE LocationStubs_numbered(_)
LocationStubs_numbered(refs) ==
    IF refs = <<>> THEN <<>>
    ELSE LET location == create_location_from_ref(Head(refs))
         IN (IF location # <<>>
             THEN <<StubEntry([location[1] EXCEPT !.id = ToString(Len(refs))])>>
             ELSE <<>>)
            \o LocationStubs_numbered(Tail(refs))

RECURSIVE LocationStubs(_)
LocationStubs(refs) ==
    IF refs = <<>> THEN <<>>
    ELSE LET location == create_location_from_ref(Head(refs))
         IN (IF location # <<>> THEN <<StubEntry(location[1])>> ELSE <<>>)
            \o LocationStubs(Tail(refs))

\* inject_referenced_resources, given the order in which each of its three sets
\* is iterated
inject_referenced_resources(b, orgs, npis, locs) ==
    LET new_entries == OrganizationStubs(orgs) \o PractitionerStubs(npis)
                           \o LocationStubs(locs)
    IN IF new_entries # <<>> THEN [b EXCEPT !.entry = new_entries \o b.entry]
       ELSE b

---------------------------------------------------------------------------
(* Reference map and rewriting *)

\* the id the map builder and the rewrite loop derive for an entry
ResourceUuid(entry) ==
    IF StartsWith(entry.fullUrl, URN) THEN Replace(entry.fullUrl, URN, "")
    ELSE IF Contains(entry.fullUrl, "/") THEN SplitLast(entry.fullUrl, "/")
    ELSE entry.resource.id

ConditionalRef(resource_type, system, value) ==
    resource_type \o "?identifier=" \o system \o "|" \o value

DirectRef(resource_type, id) == resource_type \o "/" \o id

EmptyMap == [k \in {} |-> ""]

\* ref_map after the identifiers of one entry are registered
RECURSIVE RegisterIdentifiers(_, _, _, _)
RegisterIdentifiers(m, identifiers, resource_type, resource_uuid) ==
    IF identifiers = <<>> THEN m
    ELSE LET identifier == Head(identifiers)
             next == IF identifier.system # "" /\ identifier.value # ""
                     THEN (ConditionalRef(resource_type, identifier.system,
                                          identifier.value)
                              :> DirectRef(resource_type, resource_uuid)) @@ m
                     ELSE m
         IN RegisterIdentifiers(next, Tail(identifiers), resource_type, resource_uuid)

\* what the loop registers for one entry
EntryMap(entry) ==
    LET resource_uuid == ResourceUuid(entry)
    IN IF resource_uuid = "" THEN EmptyMap
       ELSE RegisterIdentifiers(EmptyMap, entry.resource.identifier,
                                entry.resource.resourceType, resource_uuid)

\* ref_map after the loop has passed entries lo..hi: what a later entry
\* registers replaces what an earlier one did (the range is halved to keep the
\* evaluation shallow)
RECURSIVE MapOfRange(_, _, _)
MapOfRange(entries, lo, hi) ==
    IF lo > hi THEN EmptyMap
    ELSE IF lo = hi THEN EntryMap(entries[lo])
    ELSE LET mid == (lo + hi) \div 2
         IN MapOfRange(entries, mid + 1, hi) @@ MapOfRange(entries, lo, mid)

\* a map builder that keeps the first direct reference registered under a key
build_conditional_reference_map_first_wins(b) ==
    MapOfRange([i \in DOMAIN b.entry |-> b.entry[Len(b.entry) + 1 - i]],
               1, Len(b.entry))

build_conditional_reference_map(b) == MapOfRange(b.entry, 1, Len(b.entry))

transform_references_in_resource(resource) ==
    [resource EXCEPT
        !.refs = [i \in DOMAIN resource.refs |->
                     transform_urn_uuid_reference(resource.refs[i])]]

ConditionalToDirect(value, m) ==
    IF is_conditional_reference(value)
    THEN (IF value \in DOMAIN m THEN m[value] ELSE value)
    ELSE value

transform_conditional_to_direct(resource, m) ==
    [resource EXCEPT
        !.refs = [i \in DOMAIN resource.refs |->
                     ConditionalToDirect(resource.refs[i], m)]]

\* a rewrite loop that names the id in the request and leaves the resource's
\* own id as it was
RewriteEntry_id_not_set(entry, m) ==
    LET resource_type == entry.resource.resourceType
        resource_id == ResourceUuid(entry)
        transformed_resource ==
            transform_conditional_to_direct(
                transform_references_in_resource(entry.resource), m)
    IN [entry EXCEPT
           !.resource = transformed_resource,
           !.request = [method |-> "PUT",
                        url |-> IF resource_id # "" THEN DirectRef(resource_type, resource_id)
                                ELSE resource_type]]

\* one pass of the processor's rewrite loop over an entry
RewriteEntry(entry, m) ==
    LET resource_type == entry.resource.resourceType
        resource_id == ResourceUuid(entry)
        resource == IF resource_id # "" THEN [entry.resource EXCEPT !.id = resource_id]
                    ELSE entry.resource
        transformed_resource ==
            transform_conditional_to_direct(transform_references_in_resource(resource), m)
    IN [entry EXCEPT
           !.resource = transformed_resource,
           !.request = [method |-> "PUT",
                        url |-> IF resource_id # "" THEN DirectRef(resource_type, resource_id)
                                ELSE resource_type]]

RewriteBundle(b, m) ==
    [b EXCEPT !.type = "transaction",
              !.entry = [i \in DOMAIN b.entry |-> RewriteEntry(b.entry[i], m)]]

---------------------------------------------------------------------------
(* Entry orderer and transactional splitter *)

\* type_order.get(resource_type, 99)
get_order(entry) ==
    LET resource_type == entry.resource.resourceType
    IN CASE resource_type = "Organization"     -> 0
         [] resource_type = "Practitioner"     -> 1
         [] resource_type = "PractitionerRole" -> 2
         [] resource_type = "Location"         -> 3
         [] resource_type = "Patient"          -> 4
         [] OTHER                              -> 99

OrderValues == <<0, 1, 2, 3, 4, 99>>

\* sorted(entries, key=get_order): a stable sort, so the entries of each order
\* value in their input order, the order values ascending
RECURSIVE SortedFrom(_, _)
SortedFrom(entries, k) ==
    IF k > Len(OrderValues) THEN <<>>
    ELSE SelectSeq(entries, LAMBDA e : get_order(e) = OrderValues[k])
            \o SortedFrom(entries, k + 1)

Sorted(entries) == SortedFrom(entries, 1)

\* an orderer whose sorted list is dropped, the bundle keeping its input order
reorder_bundle_entries_unsorted(b) == b

\* an orderer whose sort is not stable: entries of equal order come out in the
\* reverse of their input order
reorder_bundle_entries_unstable(b) ==
    [b EXCEPT !.entry = Sorted([i \in DOMAIN b.entry |->
                                   b.entry[Len(b.entry) + 1 - i]])]

reorder_bundle_entries(b) == [b EXCEPT !.entry = Sorted(b.entry)]

Max(a, b) == IF a >= b THEN a ELSE b

Min(a, b) == IF a <= b THEN a ELSE b

\* list(range(0, stop, step)) for step > 0
RECURSIVE RangeFrom(_, _, _)
RangeFrom(i, stop, step) ==
    IF i >= stop THEN <<>> ELSE <<i>> \o RangeFrom(i + step, stop, step)

\* the foundational entries of a bundle, in sorted order
FoundationalOf(b) == SelectSeq(Sorted(b.entry), LAMBDA e : get_order(e) < 99)

\* its other entries, in sorted (that is, in their input) order
OtherOf(b) == SelectSeq(Sorted(b.entry), LAMBDA e : get_order(e) >= 99)

\* the loop of split_bundle_entries over range(0, max(1, len(other_entries)), step):
\* raised is TRUE when range() raises ValueError on a zero step; a negative step
\* makes the range empty (its start, 0, is not above its stop)
SplitChunks(b, step) ==
    LET foundational == FoundationalOf(b)
        other_entries == OtherOf(b)
        starts == IF step > 0 THEN RangeFrom(0, Max(1, Len(other_entries)), step)
                  ELSE <<>>
        chunk(i) == SubSeq(other_entries, i + 1, Min(i + step, Len(other_entries)))
        new_bundle(i) ==
            [resourceType |-> "Bundle",
             type |-> IF b.type = "" THEN "transaction" ELSE b.type,
             entry |-> IF i = 0 THEN foundational \o chunk(i) ELSE chunk(i)]
    IN IF step = 0 THEN [raised |-> TRUE, bundles |-> <<>>]
       ELSE [raised |-> FALSE,
             bundles |-> [k \in DOMAIN starts |-> new_bundle(starts[k])]]

\* a splitter that steps by the ceiling itself, as if no foundational entry
\* took room in the first sub-bundle
split_bundle_entries_ceiling_step(b, max_entries) ==
    IF Len(b.entry) <= max_entries THEN [raised |-> FALSE, bundles |-> <<b>>]
    ELSE SplitChunks(b, max_entries)

split_bundle_entries(b, max_entries) ==
    IF Len(b.entry) <= max_entries THEN [raised |-> FALSE, bundles |-> <<b>>]
    ELSE SplitChunks(b, max_entries - Len(FoundationalOf(b)))

---------------------------------------------------------------------------
(* Eligibility: the CHOA gate and the qualifying-condition check *)

Digits == "0123456789"

IsDigit(c) == Contains(Digits, c) /\ Len(c) = 1

\* int(s) for a string of digits
RECURSIVE DigitsValue(_)
DigitsValue(s) ==
    IF s = "" THEN 0
    ELSE DigitsValue(SubSeq(s, 1, Len(s) - 1)) * 10
            + (Find(Digits, SubSeq(s, Len(s), Len(s))) - 1)

AllDigits(s) == \A i \in 1..Len(s) : IsDigit(SubSeq(s, i, i))

\* the texts strptime's %m and %d accept: one digit other than 0, or two
\* digits, within range (%d also a blank and a digit)
FieldOk(s, max) ==
    \/ Len(s) = 1 /\ AllDigits(s) /\ s # "0"
    \/ Len(s) = 2 /\ AllDigits(s) /\ DigitsValue(s) \in 1..max

DayFieldOk(s) ==
    \/ FieldOk(s, 31)
    \/ Len(s) = 2 /\ SubSeq(s, 1, 1) = " " /\ FieldOk(SubSeq(s, 2, 2), 31)

IsLeap(year) == (year % 4 = 0 /\ year % 100 # 0) \/ year % 400 = 0

DaysInMonth(year, month) ==
    IF month = 2 THEN (IF IsLeap(year) THEN 29 ELSE 28)
    ELSE IF month \in {4, 6, 9, 11} THEN 30 ELSE 31

\* datetime.strptime(s, '%Y-%m-%d').date(): <<>> when it raises, else <<date>>
ParseDate(s) ==
    LET parts == Split(s, "-")
        day_text == IF SubSeq(parts[3], 1, 1) = " " THEN StrFrom(parts[3], 2)
                    ELSE parts[3]
        year == DigitsValue(parts[1])
        month == DigitsValue(parts[2])
        day == DigitsValue(day_text)
    IN IF Len(parts) # 3 THEN <<>>
       ELSE IF ~(Len(parts[1]) = 4 /\ AllDigits(parts[1])) THEN <<>>
       ELSE IF ~(FieldOk(parts[2], 12) /\ DayFieldOk(parts[3])) THEN <<>>
       ELSE IF year < 1 \/ day > DaysInMonth(year, month) THEN <<>>
       ELSE <<[year |-> year, month |-> month, day |-> day]>>

\* date.today()
Today == [year |-> 2026, month |-> 11, day |-> 1]

calculate_age(birth_date_str) ==
    LET parsed == ParseDate(birth_date_str)
        birth_date == parsed[1]
        not_yet == \/ Today.month < birth_date.month
                   \/ Today.month = birth_date.month /\ Today.day < birth_date.day
    IN IF parsed = <<>> THEN 0
       ELSE Today.year - birth_date.year - (IF not_yet THEN 1 ELSE 0)

PEDIATRIC_AGE == 21

is_pediatric(resource) ==
    IF resource.birthDate # "" THEN calculate_age(resource.birthDate) < PEDIATRIC_AGE
    ELSE FALSE

UpperCase == "ABCDEFGHIJKLMNOPQRSTUVWXYZ"

LowerCase == "abcdefghijklmnopqrstuvwxyz"

\* s.lower()
RECURSIVE Lower(_)
Lower(s) ==
    IF s = "" THEN ""
    ELSE LET c == SubSeq(s, 1, 1)
             i == Find(UpperCase, c)
         IN (IF i = 0 THEN c ELSE SubSeq(LowerCase, i, i)) \o Lower(StrFrom(s, 2))

CHOA_ORG_IDS ==
    <<"childrens-healthcare-atlanta", "choa-egleston", "choa-scottish-rite",
      "choa-hughes-spalding">>

\* the value of serviceProvider.reference, "" when the resource has none
ServiceProviderRef(resource) ==
    IF resource.serviceProvider = 0 THEN ""
    ELSE resource.refs[resource.serviceProvider]

\* "" stands for None
get_patient_managing_org(b) ==
    LET served == SelectSeq(b.entry,
                            LAMBDA e : /\ e.resource.resourceType = "Encounter"
                                       /\ ServiceProviderRef(e.resource) # "")
        ref == ServiceProviderRef(served[1].resource)
    IN IF served = <<>> THEN ""
       ELSE IF Contains(ref, "/") THEN SplitLast(ref, "/") ELSE ref

is_choa_patient(b) ==
    LET org_id == get_patient_managing_org(b)
    IN /\ org_id # ""
       /\ \E i \in DOMAIN CHOA_ORG_IDS : Contains(Lower(org_id), CHOA_ORG_IDS[i])

\* the qualifying codes of the device registry
\* (DEVICE_REGISTRY['qualifyingConditions'])
QualifyingIcd10 == <<"J44">>

QualifyingSnomed == <<"13645005">>

CodingQualifies(coding) ==
    \/ /\ Contains(Lower(coding.system), "snomed")
       /\ \E i \in DOMAIN QualifyingSnomed : coding.code = QualifyingSnomed[i]
    \/ /\ Contains(Lower(coding.system), "icd")
       /\ \E i \in DOMAIN QualifyingIcd10 : StartsWith(coding.code, QualifyingIcd10[i])
    \/ /\ coding.system = ""
       /\ \E i \in DOMAIN QualifyingIcd10 : StartsWith(coding.code, QualifyingIcd10[i])

has_qualifying_condition(b) ==
    \E i \in DOMAIN b.entry :
        /\ b.entry[i].resource.resourceType = "Condition"
        /\ \E j \in DOMAIN b.entry[i].resource.coding :
               CodingQualifies(b.entry[i].resource.coding[j])

---------------------------------------------------------------------------
(* Inputs *)

\* the entries a source bundle may hold at most
MaxEntries == 2

\* the entries and the ceiling of a direct call of the splitter at most
MaxSplitEntries == 4

MaxCeiling == 3

\* max_entries of the processor's call of split_bundle_entries
MAX_ENTRIES == 400

\* batch_size of the processor's call of stream_synthea_bundles
BATCH_SIZE == 50

\* DEVICE_COUNT, by its default
DEVICE_COUNT == 100

NPI == "1234567890"

NpiRef == NPI_PREFIX \o NPI

LocationRef == "Location?identifier=sys|val"

\* a conditional reference to the Location that declares (sys, other)
LocationOtherRef == "Location?identifier=sys|other"

OrganizationRef == "Organization?identifier=sys|val"

\* a conditional reference to a kind the synthesizer makes no stub for
EncounterRef == "Encounter?identifier=sys|val"

\* a conditional reference whose identifier value is itself a urn:uuid: URN
PatientUrnRef == "Patient?identifier=sys|urn:uuid:v"

NoRefs == <<>>

NoIdentifier == <<>>

\* the entries source bundles are made of: the shapes Synthea emits (urn:uuid:
\* fullUrls, temporary-id, direct and conditional references), entries keyed by
\* an http fullUrl or a bare id, an entry with no id at all and one whose
\* fullUrl is the bare prefix
EntryPool ==
    { Entry("urn:uuid:p", Resource("Patient", "", NoIdentifier, NoRefs)),
      Entry("urn:uuid:p", Resource("Patient", "", <<Identifier("sys", "urn:uuid:v")>>,
                                   NoRefs)),
      Entry("urn:uuid:p", Resource("Patient", "", NoIdentifier, <<NpiRef>>)),
      Entry("urn:uuid:p", Resource("Patient", "", NoIdentifier,
                                   <<NpiRef, OrganizationRef>>)),
      Entry("", Resource("Patient", "p", NoIdentifier, <<"Encounter/urn:uuid:e">>)),
      Entry("urn:uuid:g", Resource("Organization", "", <<Identifier("sys", "val")>>,
                                   NoRefs)),
      Entry("http://h/Practitioner/d",
            Resource("Practitioner", "x", <<Identifier(NPI_SYSTEM, NPI)>>, NoRefs)),
      Entry("urn:uuid:r", Resource("PractitionerRole", "", NoIdentifier,
                                   <<LocationRef>>)),
      Entry("", Resource("Location", "l", <<Identifier("sys", "other")>>, NoRefs)),
      Entry("urn:uuid:m", Resource("Location", "", <<Identifier("sys", "val")>>,
                                   NoRefs)),
      Entry("urn:uuid:e", Resource("Encounter", "", <<Identifier("sys", "val")>>,
                                   <<"urn:uuid:p">>)),
      Entry("urn:uuid:e", Resource("Encounter", "", NoIdentifier,
                                   <<"Patient/urn:uuid:p">>)),
      Entry("urn:uuid:e", Resource("Encounter", "", NoIdentifier,
                                   <<OrganizationRef, "Observation/urn:uuid:o">>)),
      Entry("", Resource("Observation", "o", NoIdentifier, <<EncounterRef>>)),
      Entry("urn:uuid:o", Resource("Observation", "", NoIdentifier, <<PatientUrnRef>>)),
      Entry("urn:uuid:o", Resource("Observation", "", NoIdentifier,
                                   <<LocationRef, LocationOtherRef>>)),
      Entry("", Resource("Observation", "", NoIdentifier, <<"Observation/o">>)),
      Entry("urn:uuid:", Resource("Encounter", "x", NoIdentifier, NoRefs)) }

SeqsUpTo(S, n) == UNION {[1..k -> S] : k \in 1..n}

Bundle(type, entries) == [resourceType |-> "Bundle", type |-> type, entry |-> entries]

PlainPatient == Entry("urn:uuid:p", Resource("Patient", "", NoIdentifier, NoRefs))

NpiPatient == Entry("urn:uuid:p", Resource("Patient", "", NoIdentifier, <<NpiRef>>))

PatientEncounter ==
    Entry("urn:uuid:e", Resource("Encounter", "", NoIdentifier, <<"Patient/urn:uuid:p">>))

\* n entries of one kind after the entries of head, the last of them referring
\* to the Patient: the bundles that are larger than the submission ceiling
LargeEntries(head, kind, n) ==
    head \o [i \in 1..n |->
                Entry(URN \o "f" \o ToString(i),
                      Resource(kind, "", NoIdentifier,
                               IF i = n THEN <<"Patient/urn:uuid:p">> ELSE NoRefs))]

LargeBundles ==
    { Bundle("collection", LargeEntries(<<NpiPatient>>, "Observation", MAX_ENTRIES)),
      Bundle("collection",
             LargeEntries(<<PatientEncounter, PlainPatient>>, "Observation", MAX_ENTRIES)),
      Bundle("collection",
             LargeEntries(<<PlainPatient, PatientEncounter>>, "Organization",
                          MAX_ENTRIES - 1)),
      Bundle("collection", LargeEntries(<<PlainPatient>>, "Organization", MAX_ENTRIES)) }

\* the query of LocationRef with its `|` percent-encoded
LocationQuotedRef == "Location?identifier=sys%7Cval"

\* the query of LocationRef with a second parameter
LocationStatusRef == "Location?identifier=sys|val&status=active"

\* an NPI query whose value holds a `|`
NpiPipeRef == NPI_PREFIX \o "x|" \o NPI

ReferringObservation(refs) ==
    Entry("urn:uuid:o", Resource("Observation", "", NoIdentifier, refs))

\* bundles whose conditional references are queries in more than one spelling
QueryBundles ==
    { Bundle("collection", <<PlainPatient,
                             ReferringObservation(<<LocationRef, LocationQuotedRef>>)>>),
      Bundle("collection", <<PlainPatient, ReferringObservation(<<LocationStatusRef>>)>>),
      Bundle("collection", <<PlainPatient, ReferringObservation(<<NpiPipeRef>>)>>) }

SourceBundles ==
    {Bundle("collection", es) : es \in SeqsUpTo(EntryPool, MaxEntries)}
        \cup LargeBundles \cup QueryBundles

EmptyBundle == Bundle("", <<>>)

\* the bundles the eligibility decisions are made about: a patient, an
\* Encounter with or without a serviceProvider, a Condition with or without a
\* qualifying code
BirthDates ==
    {"", "2010-05-17", "1980-01-01", "2005-11-01", "2005-11-02", "2005-13-01", "1980"}

Providers ==
    {"", "Organization/choa-egleston", "Organization?identifier=sys|CHOA-Scottish-Rite",
     "Organization/other", "urn:uuid:g"}

Coding(system, code) == [system |-> system, code |-> code]

Codings ==
    {<<>>, <<Coding("http://snomed.info/sct", "13645005")>>,
     <<Coding("http://snomed.info/sct", "1"), Coding("http://hl7.org/fhir/sid/icd-10-cm", "J44.1")>>,
     <<Coding("", "J449")>>, <<Coding("http://snomed.info/sct", "J44")>>}

GatePatient(birth) ==
    Entry("urn:uuid:p",
          [Resource("Patient", "", NoIdentifier, NoRefs) EXCEPT !.birthDate = birth])

GateEncounter(provider) ==
    Entry("urn:uuid:e",
          IF provider = "" THEN Resource("Encounter", "", NoIdentifier, <<"urn:uuid:p">>)
          ELSE [Resource("Encounter", "", NoIdentifier, <<"urn:uuid:p", provider>>)
                   EXCEPT !.serviceProvider = 2])

GateCondition(coding) ==
    Entry("urn:uuid:c",
          [Resource("Condition", "", NoIdentifier, <<"urn:uuid:p">>)
              EXCEPT !.coding = coding])

GateBundle(birth, provider, coding) ==
    Bundle("collection", <<GatePatient(birth), GateEncounter(provider),
                           GateCondition(coding)>>)

GateBundles ==
    {GateBundle(birth, provider, coding) :
        birth \in BirthDates, provider \in Providers, coding \in Codings}

\* what the download of a blob gives: a document, or an error
Blob(content) == [download |-> "ok", content |-> content]

FailingBlob == [download |-> "error", content |-> EmptyBundle]

\* a JSON document that is not a Bundle
NonBundle == Blob([resourceType |-> "OperationOutcome", type |-> "", entry |-> <<>>])

NoPatientBlob ==
    Blob(Bundle("collection",
                <<Entry("urn:uuid:g", Resource("Organization", "", NoIdentifier, NoRefs))>>))

PatientBlob == Blob(Bundle("collection", <<PlainPatient>>))

\* the blobs of the listings of several documents: bundles that are passed
\* over, uploaded, stubbed in more than one order, gated, found qualifying, and
\* one on which the splitter raises
StreamPool ==
    { NonBundle, FailingBlob, NoPatientBlob, PatientBlob,
      Blob(Bundle("collection",
                  <<NpiPatient,
                    Entry("urn:uuid:o", Resource("Observation", "", NoIdentifier,
                                                 <<LocationRef, LocationOtherRef>>))>>)),
      Blob(GateBundle("1980-01-01", "Organization/choa-egleston", <<>>)),
      Blob(GateBundle("2010-05-17", "Organization/choa-egleston",
                      <<Coding("http://snomed.info/sct", "13645005")>>)),
      Blob(Bundle("collection",
                  LargeEntries(<<PlainPatient, PatientEncounter>>, "Organization",
                               MAX_ENTRIES - 1))) }

\* the documents a listing of several holds at most
MaxBlobs == 2

ShortListings == UNION {[1..n -> StreamPool] : n \in 0..MaxBlobs}

\* a listing of n blobs, each a bundle with no patient but for the places that
\* hold a bundle with one, a failing download or a document that is no Bundle
LongListing(n, patients, failing, others) ==
    [i \in 1..n |-> IF i \in patients THEN PatientBlob
                    ELSE IF i \in failing THEN FailingBlob
                    ELSE IF i \in others THEN NonBundle
                    ELSE NoPatientBlob]

\* listings that fill more than one batch
LongListings ==
    { LongListing(BATCH_SIZE + 2, {1, 2, BATCH_SIZE + 2}, {}, {}),
      LongListing(BATCH_SIZE + 3, {1, BATCH_SIZE + 2}, {3}, {10}),
      LongListing(2 * BATCH_SIZE, {BATCH_SIZE, BATCH_SIZE + 1}, {}, {}),
      LongListing(BATCH_SIZE + 1, {BATCH_SIZE}, {BATCH_SIZE + 1}, {}),
      LongListing(BATCH_SIZE + 1, {2}, {1}, {BATCH_SIZE + 1}) }

Listings ==
    {<<Blob(b)>> : b \in SourceBundles \cup GateBundles}
        \cup ShortListings \cup LongListings

NoCall == [bundle |-> EmptyBundle, max_entries |-> 0]

\* the emulator is not running
NoRng == [seed |-> <<>>, drawn |-> 0]

NoPayload == [device_id |-> 0, telemetry |-> <<>>]

NoOutcome == [raised |-> FALSE, bundles |-> <<>>]

---------------------------------------------------------------------------
(* stream_synthea_bundles and process_synthea_bundles *)

\* the generator's test for a full batch
BatchFull_over(b, size) == Len(b) > size

BatchFull(b, size) == Len(b) >= size

get_patient_from_bundle(b) ==
    LET patients == SelectSeq(b.entry, LAMBDA e : e.resource.resourceType = "Patient")
    IN IF patients = <<>> THEN <<>> ELSE <<patients[1].resource>>

\* the states in which the loop over the batch takes its next bundle or ends
AtLoopHead == pc \in {"batch", "skipped", "uploaded", "failed"}

\* the state after the storage listing has succeeded
Init ==
    /\ pc = "stream"
    /\ json_blobs \in Listings
    /\ batch_size = BATCH_SIZE
    /\ next_blob = 0
    /\ batch = <<>>
    /\ batch_pos = 0
    /\ gen = "loop"
    /\ bundle = EmptyBundle
    /\ patient = <<>>
    /\ ref_map = EmptyMap
    /\ sub_bundles = <<>>
    /\ next_sub = 1
    /\ uploaded_count = 0
    /\ skipped_choa_adult = 0
    /\ qualifying_patients = <<>>
    /\ source = EmptyBundle
    /\ before = <<>>
    /\ posted = <<>>
    /\ stages = <<>>
    /\ decided = <<>>
    /\ delivered = <<>>
    /\ outcomes = <<>>
    /\ split_in = NoCall
    /\ split_out = NoOutcome
    /\ fhir_calls = <<"ok">>
    /\ list_calls = <<"ok">>
    /\ sleeps = <<>>
    /\ simulators = <<>>
    /\ rng = NoRng
    /\ turn = 0
    /\ payload = NoPayload
    /\ device_count = DEVICE_COUNT

\* one pass of the generator's loop over the listing: the download, the append
\* of a Bundle document, the yield of a full batch
Download ==
    /\ pc = "stream"
    /\ gen = "loop"
    /\ next_blob < Len(json_blobs)
    /\ LET blob == json_blobs[next_blob + 1]
           got == blob.download = "ok"
           appended == IF got /\ blob.content.resourceType = "Bundle"
                       THEN Append(batch, next_blob + 1)
                       ELSE batch
           yields == got /\ BatchFull(appended, batch_size)
       IN /\ batch' = appended
          /\ next_blob' = next_blob + 1
          /\ gen' = IF yields THEN "yielded" ELSE "loop"
          /\ pc' = IF yields THEN "batch" ELSE "stream"
          /\ batch_pos' = IF yields THEN 0 ELSE batch_pos
          /\ delivered' = IF yields THEN Append(delivered, appended) ELSE delivered
    /\ UNCHANGED <<json_blobs, batch_size, bundleVars, resultVars, splitVars,
                   mainVars, emulatorVars>>

\* the listing is exhausted: the remaining bundles are yielded, or the generator
\* returns and the processor's loop over the batches ends
StreamEnd ==
    /\ pc = "stream"
    /\ gen = "loop"
    /\ next_blob = Len(json_blobs)
    /\ gen' = IF batch # <<>> THEN "final" ELSE "done"
    /\ pc' = IF batch # <<>> THEN "batch" ELSE "returned"
    /\ batch_pos' = IF batch # <<>> THEN 0 ELSE batch_pos
    /\ delivered' = IF batch # <<>> THEN Append(delivered, batch) ELSE delivered
    /\ UNCHANGED <<json_blobs, batch_size, next_blob, batch, bundleVars, resultVars,
                   splitVars,
                   mainVars, emulatorVars>>

\* the loop over the batch takes its next bundle
TakeBundle ==
    /\ AtLoopHead
    /\ batch_pos < Len(batch)
    /\ bundle' = json_blobs[batch[batch_pos + 1]].content
    /\ batch_pos' = batch_pos + 1
    /\ source' = bundle'
    /\ before' = <<>>
    /\ posted' = <<>>
    /\ stages' = <<>>
    /\ decided' = <<>>
    /\ pc' = "received"
    /\ UNCHANGED <<json_blobs, batch_size, next_blob, batch, gen, delivered, patient,
                   ref_map, sub_bundles, next_sub, resultVars, splitVars,
                   mainVars, emulatorVars>>

\* the loop over the batch ends: the generator is resumed, empties its batch and
\* goes on with the listing, or returns after its final yield
BatchDone ==
    /\ AtLoopHead
    /\ batch_pos = Len(batch)
    /\ batch' = <<>>
    /\ gen' = IF gen = "yielded" THEN "loop" ELSE "done"
    /\ pc' = IF gen = "yielded" THEN "stream" ELSE "returned"
    /\ UNCHANGED <<json_blobs, batch_size, next_blob, batch_pos, delivered, bundleVars,
                   resultVars, splitVars,
                   mainVars, emulatorVars>>

\* a processor whose CHOA gate counts the bundle and has no `continue`: the
\* bundle goes on to stub injection
Classify_no_continue ==
    /\ pc = "received"
    /\ patient' = get_patient_from_bundle(bundle)
    /\ LET choa_adult == /\ patient' # <<>>
                         /\ is_choa_patient(bundle)
                         /\ ~is_pediatric(patient'[1])
       IN /\ pc' = IF patient' = <<>> THEN "skipped" ELSE "eligible"
          /\ skipped_choa_adult' = skipped_choa_adult + (IF choa_adult THEN 1 ELSE 0)
          /\ outcomes' = IF patient' = <<>> THEN Append(outcomes, "skipped") ELSE outcomes
          /\ decided' = IF patient' = <<>> THEN decided
                        ELSE Append(decided, [decision |-> "gate",
                                              entries |-> bundle.entry,
                                              submitted |-> Len(posted),
                                              outcome |-> ~choa_adult])
    /\ UNCHANGED <<streamVars, bundle, ref_map, sub_bundles, next_sub, source, before,
                   posted, stages, uploaded_count, qualifying_patients, splitVars,
                   mainVars, emulatorVars>>

\* the patient gate and the CHOA gate: a bundle with no Patient entry and a
\* CHOA bundle whose patient is not pediatric are passed over
Classify ==
    /\ pc = "received"
    /\ patient' = get_patient_from_bundle(bundle)
    /\ LET choa_adult == /\ patient' # <<>>
                         /\ is_choa_patient(bundle)
                         /\ ~is_pediatric(patient'[1])
       IN /\ pc' = IF patient' = <<>> \/ choa_adult THEN "skipped" ELSE "eligible"
          /\ skipped_choa_adult' = skipped_choa_adult + (IF choa_adult THEN 1 ELSE 0)
          /\ outcomes' = IF patient' = <<>> \/ choa_adult
                         THEN Append(outcomes, "skipped") ELSE outcomes
          /\ decided' = IF patient' = <<>> THEN decided
                        ELSE Append(decided, [decision |-> "gate",
                                              entries |-> bundle.entry,
                                              submitted |-> Len(posted),
                                              outcome |-> ~choa_adult])
    /\ UNCHANGED <<streamVars, bundle, ref_map, sub_bundles, next_sub, source, before,
                   posted, stages, uploaded_count, qualifying_patients, splitVars,
                   mainVars, emulatorVars>>

Inject ==
    /\ pc = "eligible"
    /\ \E orgs \in Orderings(organization_refs(bundle.entry)),
          npis \in Orderings(practitioner_npis(bundle.entry)),
          locs \in Orderings(location_refs(bundle.entry)) :
            bundle' = inject_referenced_resources(bundle, orgs, npis, locs)
    /\ stages' = Append(stages, "injected")
    /\ pc' = "injected"
    /\ UNCHANGED <<streamVars, patient, ref_map, sub_bundles, next_sub, source, before,
                   posted, decided, resultVars, splitVars,
                   mainVars, emulatorVars>>

Reorder ==
    /\ pc = "injected"
    /\ bundle' = reorder_bundle_entries(bundle)
    /\ stages' = Append(stages, "reordered")
    /\ pc' = "reordered"
    /\ UNCHANGED <<streamVars, patient, ref_map, sub_bundles, next_sub, source, before,
                   posted, decided, resultVars, splitVars,
                   mainVars, emulatorVars>>

BuildMap ==
    /\ pc = "reordered"
    /\ ref_map' = build_conditional_reference_map(bundle)
    /\ stages' = Append(stages, "mapped")
    /\ pc' = "mapped"
    /\ UNCHANGED <<streamVars, bundle, patient, sub_bundles, next_sub, source, before,
                   posted, decided, resultVars, splitVars,
                   mainVars, emulatorVars>>

\* the patient the processor holds is the resource of the first Patient entry:
\* the loop sets that resource's id in place
PatientAfterRewrite(entries, p) ==
    LET patients == SelectSeq(entries, LAMBDA e : e.resource.resourceType = "Patient")
        resource_id == ResourceUuid(patients[1])
    IN IF p = <<>> \/ patients = <<>> \/ resource_id = "" THEN p
       ELSE <<[p[1] EXCEPT !.id = resource_id]>>

Rewrite ==
    /\ pc = "mapped"
    /\ before' = bundle.entry
    /\ bundle' = RewriteBundle(bundle, ref_map)
    /\ patient' = PatientAfterRewrite(bundle.entry, patient)
    /\ stages' = Append(stages, "rewritten")
    /\ pc' = "rewritten"
    /\ UNCHANGED <<streamVars, ref_map, sub_bundles, next_sub, source, posted, decided,
                   resultVars, splitVars,
                   mainVars, emulatorVars>>

\* a ValueError of the splitter is caught by the loop's except clause
SplitBundle ==
    /\ pc = "rewritten"
    /\ LET out == split_bundle_entries(bundle, MAX_ENTRIES)
       IN /\ sub_bundles' = IF out.raised THEN sub_bundles ELSE out.bundles
          /\ pc' = IF out.raised THEN "failed" ELSE "split"
          /\ stages' = IF out.raised THEN stages ELSE Append(stages, "split")
          /\ outcomes' = IF out.raised THEN Append(outcomes, "failed") ELSE outcomes
    /\ next_sub' = 1
    /\ UNCHANGED <<streamVars, bundle, patient, ref_map, source, before, posted,
                   decided, uploaded_count, skipped_choa_adult, qualifying_patients,
                   splitVars,
                   mainVars, emulatorVars>>

\* client.post_bundle(sub_bundle) returns
PostOk ==
    /\ pc = "split"
    /\ next_sub <= Len(sub_bundles)
    /\ posted' = Append(posted, sub_bundles[next_sub])
    /\ next_sub' = next_sub + 1
    /\ UNCHANGED <<pc, streamVars, bundle, patient, ref_map, sub_bundles, source, before,
                   stages, decided, resultVars, splitVars,
                   mainVars, emulatorVars>>

\* a processor with no except clause in its loop: the error of post_bundle ends
\* the run
PostFail_aborts ==
    /\ pc = "split"
    /\ next_sub <= Len(sub_bundles)
    /\ pc' = "aborted"
    /\ outcomes' = Append(outcomes, "failed")
    /\ UNCHANGED <<streamVars, bundleVars, uploaded_count, skipped_choa_adult,
                   qualifying_patients, splitVars,
                   mainVars, emulatorVars>>

\* a processor that catches the error of post_bundle inside the loop over the
\* sub-bundles and goes on with the next sub-bundle
PostFail_continues ==
    /\ pc = "split"
    /\ next_sub <= Len(sub_bundles)
    /\ next_sub' = next_sub + 1
    /\ UNCHANGED <<pc, streamVars, bundle, patient, ref_map, sub_bundles, source, before,
                   posted, stages, decided, resultVars, splitVars,
                   mainVars, emulatorVars>>

\* client.post_bundle(sub_bundle) raises (raise_for_status, a transport error):
\* the loop's except clause ends the work on this bundle
PostFail ==
    /\ pc = "split"
    /\ next_sub <= Len(sub_bundles)
    /\ pc' = "failed"
    /\ outcomes' = Append(outcomes, "failed")
    /\ UNCHANGED <<streamVars, bundleVars, uploaded_count, skipped_choa_adult,
                   qualifying_patients, splitVars,
                   mainVars, emulatorVars>>

\* a test that lets the list grow while it has DEVICE_COUNT patients
BelowDeviceCount_inclusive(patients, count) == Len(patients) <= count

\* len(qualifying_patients) < DEVICE_COUNT
BelowDeviceCount(patients, count) == Len(patients) < count

\* what the processor records of a qualifying patient
QualifyingPatient(p) ==
    [id |-> p.id, birthDate |-> p.birthDate, isPediatric |-> is_pediatric(p)]

\* a processor that counts the bundle and checks it for a qualifying condition
\* before it posts the sub-bundles
Uploaded_before_posting ==
    /\ pc = "split"
    /\ next_sub = 1
    /\ uploaded_count' = uploaded_count + 1
    /\ LET qualifies == has_qualifying_condition(bundle)
       IN /\ qualifying_patients' =
                IF qualifies /\ BelowDeviceCount(qualifying_patients, device_count)
                THEN Append(qualifying_patients, QualifyingPatient(patient[1]))
                ELSE qualifying_patients
          /\ decided' = Append(decided, [decision |-> "qualifying",
                                         entries |-> bundle.entry,
                                         submitted |-> Len(posted),
                                         outcome |-> qualifies])
    /\ outcomes' = Append(outcomes, "uploaded")
    /\ pc' = "uploaded"
    /\ UNCHANGED <<streamVars, bundle, patient, ref_map, sub_bundles, next_sub, source,
                   before, posted, stages, skipped_choa_adult, splitVars,
                   mainVars, emulatorVars>>

\* every sub-bundle is posted: the bundle is counted and checked for a
\* qualifying condition
Uploaded ==
    /\ pc = "split"
    /\ next_sub > Len(sub_bundles)
    /\ uploaded_count' = uploaded_count + 1
    /\ LET qualifies == has_qualifying_condition(bundle)
       IN /\ qualifying_patients' =
                IF qualifies /\ BelowDeviceCount(qualifying_patients, device_count)
                THEN Append(qualifying_patients, QualifyingPatient(patient[1]))
                ELSE qualifying_patients
          /\ decided' = Append(decided, [decision |-> "qualifying",
                                         entries |-> bundle.entry,
                                         submitted |-> Len(posted),
                                         outcome |-> qualifies])
    /\ outcomes' = Append(outcomes, "uploaded")
    /\ pc' = "uploaded"
    /\ UNCHANGED <<streamVars, bundle, patient, ref_map, sub_bundles, next_sub, source,
                   before, posted, stages, skipped_choa_adult, splitVars,
                   mainVars, emulatorVars>>

Next ==
    \/ Download
    \/ StreamEnd
    \/ TakeBundle
    \/ BatchDone
    \/ Classify
    \/ Inject
    \/ Reorder
    \/ BuildMap
    \/ Rewrite
    \/ SplitBundle
    \/ PostOk
    \/ PostFail
    \/ Uploaded

Spec == Init /\ [][Next]_vars

---------------------------------------------------------------------------
(* stream_synthea_bundles called with a batch size of the caller's choosing,
   its batches consumed by the processor's loop *)

\* the batch sizes and the blobs of a listing at most
MaxBatchSize == 3

MaxListing == 4

ListingPool == {NonBundle, FailingBlob, NoPatientBlob, PatientBlob}

InitStream ==
    /\ pc = "stream"
    /\ json_blobs \in UNION {[1..n -> ListingPool] : n \in 0..MaxListing}
    /\ batch_size \in 1..MaxBatchSize
    /\ next_blob = 0
    /\ batch = <<>>
    /\ batch_pos = 0
    /\ gen = "loop"
    /\ bundle = EmptyBundle
    /\ patient = <<>>
    /\ ref_map = EmptyMap
    /\ sub_bundles = <<>>
    /\ next_sub = 1
    /\ uploaded_count = 0
    /\ skipped_choa_adult = 0
    /\ qualifying_patients = <<>>
    /\ source = EmptyBundle
    /\ before = <<>>
    /\ posted = <<>>
    /\ stages = <<>>
    /\ decided = <<>>
    /\ delivered = <<>>
    /\ outcomes = <<>>
    /\ split_in = NoCall
    /\ split_out = NoOutcome
    /\ fhir_calls = <<"ok">>
    /\ list_calls = <<"ok">>
    /\ sleeps = <<>>
    /\ simulators = <<>>
    /\ rng = NoRng
    /\ turn = 0
    /\ payload = NoPayload
    /\ device_count = DEVICE_COUNT

SpecStream == InitStream /\ [][Next]_vars

---------------------------------------------------------------------------
(* main: the connection test, the provider and device uploads, and the retry
   loop of stream_synthea_bundles over the storage listing *)

\* max_retries of main and of stream_synthea_bundles (its default: the processor
\* passes none)
MAX_RETRIES == 12

\* retry_delay of both, in seconds
RETRY_DELAY == 10

\* the documents of a listing of a whole run at most
MaxRunBlobs == 1

Sleep(loop) == [loop |-> loop, seconds |-> RETRY_DELAY]

\* how an attempt to list the container can end: the list, an error whose text
\* holds 'authorization', 'permission' or '403', any other error
ListOutcomes == {"ok", "rbac", "other"}

\* main is entered: nothing is tested, listed or downloaded yet
InitMain ==
    /\ pc = "main"
    /\ json_blobs \in UNION {[1..n -> ListingPool] : n \in 0..MaxRunBlobs}
    /\ batch_size = BATCH_SIZE
    /\ next_blob = 0
    /\ batch = <<>>
    /\ batch_pos = 0
    /\ gen = "loop"
    /\ bundle = EmptyBundle
    /\ patient = <<>>
    /\ ref_map = EmptyMap
    /\ sub_bundles = <<>>
    /\ next_sub = 1
    /\ uploaded_count = 0
    /\ skipped_choa_adult = 0
    /\ qualifying_patients = <<>>
    /\ source = EmptyBundle
    /\ before = <<>>
    /\ posted = <<>>
    /\ stages = <<>>
    /\ decided = <<>>
    /\ delivered = <<>>
    /\ outcomes = <<>>
    /\ split_in = NoCall
    /\ split_out = NoOutcome
    /\ fhir_calls = <<>>
    /\ list_calls = <<>>
    /\ sleeps = <<>>
    /\ simulators = <<>>
    /\ rng = NoRng
    /\ turn = 0
    /\ payload = NoPayload
    /\ device_count = DEVICE_COUNT

\* one pass of main's loop `for attempt in range(max_retries)`: get_count
\* returns and the loop is left, or it raises and main sleeps before the next
\* pass, or, on the last pass, exits
TestConnection ==
    /\ pc = "main"
    /\ Len(fhir_calls) < MAX_RETRIES
    /\ LET attempt == Len(fhir_calls)
       IN \E outcome \in {"ok", "error"} :
            /\ fhir_calls' = Append(fhir_calls, outcome)
            /\ sleeps' = IF outcome = "error" /\ attempt < MAX_RETRIES - 1
                         THEN Append(sleeps, Sleep("fhir")) ELSE sleeps
            /\ pc' = IF outcome = "ok" THEN "connected"
                     ELSE IF attempt < MAX_RETRIES - 1 THEN "main"
                     ELSE "exited"
    /\ UNCHANGED <<streamVars, bundleVars, resultVars, splitVars, list_calls,
                   device_count, emulatorVars>>

\* upload_providers and upload_devices (an error of a put_resource is caught
\* for each resource), then process_synthea_bundles is called and asks the
\* generator for its first batch
UploadProvidersAndDevices ==
    /\ pc = "connected"
    /\ pc' = "listing"
    /\ UNCHANGED <<streamVars, bundleVars, resultVars, splitVars, mainVars, emulatorVars>>

\* a generator whose loop has no break: it lists the container again after a
\* listing has succeeded
ListBlobs_no_break ==
    /\ pc = "listing"
    /\ Len(list_calls) < MAX_RETRIES
    /\ LET attempt == Len(list_calls)
       IN \E outcome \in ListOutcomes :
            /\ list_calls' = Append(list_calls, outcome)
            /\ sleeps' = IF outcome = "rbac" /\ attempt < MAX_RETRIES - 1
                         THEN Append(sleeps, Sleep("storage")) ELSE sleeps
            /\ pc' = IF outcome = "other" THEN "raised"
                     ELSE IF attempt < MAX_RETRIES - 1 THEN "listing"
                     ELSE IF \E i \in DOMAIN list_calls' : list_calls'[i] = "ok"
                     THEN "stream"
                     ELSE "raised"
    /\ UNCHANGED <<streamVars, bundleVars, resultVars, splitVars, fhir_calls,
                   device_count, emulatorVars>>

\* one pass of the generator's loop `for attempt in range(max_retries)`: the
\* listing is made and the loop is left, or an RBAC error is slept on (the loop
\* ends after the last pass with json_blobs None, and the generator raises), or
\* any other error is raised again. The exception leaves process_synthea_bundles
\* and main, which catch none at that place
ListBlobs ==
    /\ pc = "listing"
    /\ Len(list_calls) < MAX_RETRIES
    /\ LET attempt == Len(list_calls)
       IN \E outcome \in ListOutcomes :
            /\ list_calls' = Append(list_calls, outcome)
            /\ sleeps' = IF outcome = "rbac" /\ attempt < MAX_RETRIES - 1
                         THEN Append(sleeps, Sleep("storage")) ELSE sleeps
            /\ pc' = IF outcome = "ok" THEN "stream"
                     ELSE IF outcome = "rbac" /\ attempt < MAX_RETRIES - 1 THEN "listing"
                     ELSE "raised"
    /\ UNCHANGED <<streamVars, bundleVars, resultVars, splitVars, fhir_calls,
                   device_count, emulatorVars>>

NextMain ==
    \/ TestConnection
    \/ UploadProvidersAndDevices
    \/ ListBlobs
    \/ Download
    \/ StreamEnd
    \/ TakeBundle
    \/ BatchDone
    \/ Classify
    \/ Inject
    \/ Reorder
    \/ BuildMap
    \/ Rewrite
    \/ SplitBundle
    \/ PostOk
    \/ PostFail
    \/ Uploaded

SpecMain == InitMain /\ [][NextMain]_vars

---------------------------------------------------------------------------
(* process_synthea_bundles under a DEVICE_COUNT of the environment's choosing *)

\* the DEVICE_COUNT of the environment and the bundles of a listing at most
MaxDeviceCount == 2

MaxPatients == 3

\* bundles of patients with a qualifying condition, a child's and an adult's,
\* and of a patient with none
PatientPool ==
    { Blob(GateBundle("2010-05-17", "", <<Coding("http://snomed.info/sct", "13645005")>>)),
      Blob(GateBundle("1980-01-01", "Organization/other",
                      <<Coding("http://hl7.org/fhir/sid/icd-10-cm", "J44.1")>>)),
      PatientBlob }

InitDevices ==
    /\ pc = "stream"
    /\ json_blobs \in UNION {[1..n -> PatientPool] : n \in 0..MaxPatients}
    /\ device_count \in 0..MaxDeviceCount
    /\ batch_size = BATCH_SIZE
    /\ next_blob = 0
    /\ batch = <<>>
    /\ batch_pos = 0
    /\ gen = "loop"
    /\ bundle = EmptyBundle
    /\ patient = <<>>
    /\ ref_map = EmptyMap
    /\ sub_bundles = <<>>
    /\ next_sub = 1
    /\ uploaded_count = 0
    /\ skipped_choa_adult = 0
    /\ qualifying_patients = <<>>
    /\ source = EmptyBundle
    /\ before = <<>>
    /\ posted = <<>>
    /\ stages = <<>>
    /\ decided = <<>>
    /\ delivered = <<>>
    /\ outcomes = <<>>
    /\ split_in = NoCall
    /\ split_out = NoOutcome
    /\ fhir_calls = <<"ok">>
    /\ list_calls = <<"ok">>
    /\ sleeps = <<>>
    /\ simulators = <<>>
    /\ rng = NoRng
    /\ turn = 0
    /\ payload = NoPayload

SpecDevices == InitDevices /\ [][Next]_vars

---------------------------------------------------------------------------
(* split_bundle_entries called on its own *)

SplitKinds == {"Organization", "Patient", "PractitionerRole", "Observation", "Encounter"}

\* entries that differ in their kind and are told apart by their id, the place
\* each has in the bundle
KindEntries(kinds) ==
    [i \in DOMAIN kinds |-> Entry("", Resource(kinds[i], ToString(i), NoIdentifier, NoRefs))]

\* the 900-entry bundles of the splitter's scenario: three foundational entries,
\* at the front, at the back or spread out, among Observations
ScenarioPlaces == {<<1, 2, 3>>, <<898, 899, 900>>, <<1, 450, 900>>, <<398, 399, 400>>}

ScenarioKinds(places, found) ==
    [i \in 1..900 |-> IF i = places[1] THEN found[1]
                      ELSE IF i = places[2] THEN found[2]
                      ELSE IF i = places[3] THEN found[3]
                      ELSE "Observation"]

ScenarioCalls ==
    {[bundle |-> Bundle("transaction", KindEntries(ScenarioKinds(places, found))),
      max_entries |-> MAX_ENTRIES] :
        places \in ScenarioPlaces,
        found \in [1..3 -> {"Organization", "Practitioner", "Patient"}]}

SmallCalls ==
    {[bundle |-> Bundle("transaction", KindEntries(kinds)), max_entries |-> ceiling] :
        kinds \in SeqsUpTo(SplitKinds, MaxSplitEntries), ceiling \in 1..MaxCeiling}

InitSplit ==
    /\ pc = "call"
    /\ split_in \in SmallCalls \cup ScenarioCalls
    /\ split_out = NoOutcome
    /\ json_blobs = <<>>
    /\ batch_size = BATCH_SIZE
    /\ next_blob = 0
    /\ batch = <<>>
    /\ batch_pos = 0
    /\ gen = "loop"
    /\ bundle = EmptyBundle
    /\ patient = <<>>
    /\ ref_map = EmptyMap
    /\ sub_bundles = <<>>
    /\ next_sub = 1
    /\ uploaded_count = 0
    /\ skipped_choa_adult = 0
    /\ qualifying_patients = <<>>
    /\ source = EmptyBundle
    /\ before = <<>>
    /\ posted = <<>>
    /\ stages = <<>>
    /\ decided = <<>>
    /\ delivered = <<>>
    /\ outcomes = <<>>
    /\ fhir_calls = <<>>
    /\ list_calls = <<>>
    /\ sleeps = <<>>
    /\ simulators = <<>>
    /\ rng = NoRng
    /\ turn = 0
    /\ payload = NoPayload
    /\ device_count = DEVICE_COUNT

CallSplit ==
    /\ pc = "call"
    /\ split_out' = split_bundle_entries(split_in.bundle, split_in.max_entries)
    /\ pc' = "returned"
    /\ UNCHANGED <<streamVars, bundleVars, resultVars, split_in, mainVars, emulatorVars>>

NextSplit == CallSplit

SpecSplit == InitSplit /\ [][NextSplit]_vars

---------------------------------------------------------------------------
(* The telemetry emulator (src/emulator.py): the simulators and the loop of
   run() over the devices. A vital sign is an integer number of thousandths; a
   value of random.random() is a number of thousandths between 0 and 1000 *)

\* the devices of the emulator (its DEVICE_COUNT) at most
MaxSimulators == 2

\* DEVICE_IDS, each device standing for its id by its number
DEVICE_IDS == [i \in 1..MaxSimulators |-> i]

\* random.uniform(a, b) for the value u of random.random()
Uniform(a, b, u) == a + ((b - a) * u) \div 1000

\* random.randint(a, b) for the value u of random.random()
RandInt(a, b, u) == Min(b, a + ((b - a + 1) * u) \div 1000)

\* a clamp with no upper limit
Clamp_no_ceiling(lo, hi, x) == Max(lo, x)

\* max(lo, min(hi, x))
Clamp(lo, hi, x) == Max(lo, Min(hi, x))

\* round(x, n) for a unit of 10^-n: the nearest multiple of the unit; half-way
\* between two, the one the binary value of x is nearer to, which may be either
Rounded(x, unit) ==
    LET down == x - (x % unit)
    IN IF 2 * (x % unit) < unit THEN {down}
       ELSE IF 2 * (x % unit) > unit THEN {down + unit}
       ELSE {down, down + unit}

\* int(x) for a positive x
IntOf(x) == x - (x % 1000)

\* MasimoSimulator(device_id), given the four values the generator seeded with
\* hash(device_id) % 1000 delivers
MasimoSimulator(device_id, u) ==
    [device_id |-> device_id,
     spo2 |-> 95000 + Uniform(0, 4000, u[1]),
     pr   |-> 65000 + Uniform(0, 20000, u[2]),
     pi   |-> 2500 + Uniform(0, 2000, u[3]),
     pvi  |-> 10000 + Uniform(0, 8000, u[4])]

\* what the generator seeded with hash(device_id) % 1000 can deliver
StartDraws == {<<0, 0, 0, 0>>, <<333, 333, 333, 333>>, <<1000, 1000, 1000, 1000>>}

\* the streams of values the generator can deliver after random.seed(), each
\* repeated without end: the least value, the greatest, and a mixed stream
Seeds == {<<0>>, <<1000>>, <<1000, 0, 685, 0, 500, 1000, 180>>}

\* the k-th value the generator delivers from now on
Random(k) == rng.seed[((rng.drawn + k - 1) % Len(rng.seed)) + 1]

\* run() has created the simulators and enters its loop over the cycles
InitEmulator ==
    /\ pc = "emulating"
    /\ simulators \in {[i \in 1..MaxSimulators |-> MasimoSimulator(DEVICE_IDS[i], u[i])] :
                          u \in [1..MaxSimulators -> StartDraws]}
    /\ rng \in {[seed |-> seed, drawn |-> 0] : seed \in Seeds}
    /\ turn = 1
    /\ payload = NoPayload
    /\ json_blobs = <<>>
    /\ batch_size = BATCH_SIZE
    /\ next_blob = 0
    /\ batch = <<>>
    /\ batch_pos = 0
    /\ gen = "loop"
    /\ bundle = EmptyBundle
    /\ patient = <<>>
    /\ ref_map = EmptyMap
    /\ sub_bundles = <<>>
    /\ next_sub = 1
    /\ uploaded_count = 0
    /\ skipped_choa_adult = 0
    /\ qualifying_patients = <<>>
    /\ source = EmptyBundle
    /\ before = <<>>
    /\ posted = <<>>
    /\ stages = <<>>
    /\ decided = <<>>
    /\ delivered = <<>>
    /\ outcomes = <<>>
    /\ split_in = NoCall
    /\ split_out = NoOutcome
    /\ fhir_calls = <<>>
    /\ list_calls = <<>>
    /\ device_count = DEVICE_COUNT
    /\ sleeps = <<>>

\* one pass of `for device_id in DEVICE_IDS`: generate_reading of that device's
\* simulator, which draws six values from the generator; the reading is added
\* to the batch, or adding it (or sending the full batch on the way) raises and
\* run() exits
GenerateReading ==
    /\ pc = "emulating"
    /\ turn <= Len(DEVICE_IDS)
    /\ LET self == simulators[DEVICE_IDS[turn]]
           spo2 == Clamp(88000, 100000, self.spo2 + Uniform(-500, 500, Random(1)))
           pr   == Clamp(50000, 140000, self.pr + Uniform(-2000, 2000, Random(2)))
           pi   == Clamp(500, 10000, self.pi + Uniform(-100, 100, Random(3)))
           pvi  == Clamp(5000, 30000, self.pvi + Uniform(-1000, 1000, Random(4)))
       IN /\ simulators' = [simulators EXCEPT
                               ![DEVICE_IDS[turn]] =
                                   [self EXCEPT !.spo2 = spo2, !.pr = pr, !.pi = pi,
                                                !.pvi = pvi]]
          /\ \E e_spo2 \in Rounded(spo2, 100), e_pi \in Rounded(pi, 10),
                e_sphb \in Rounded(12500 + Uniform(-1000, 1000, Random(5)), 100) :
               payload' = [device_id |-> self.device_id,
                           telemetry |-> [spo2 |-> e_spo2, pr |-> IntOf(pr), pi |-> e_pi,
                                          pvi |-> IntOf(pvi), sphb |-> e_sphb,
                                          signal_iq |-> RandInt(90, 100, Random(6))]]
    /\ rng' = [rng EXCEPT !.drawn = (rng.drawn + 6) % Len(rng.seed)]
    /\ \E added \in BOOLEAN :
         /\ pc' = IF added THEN "emulating" ELSE "exited"
         /\ turn' = IF added THEN turn + 1 ELSE turn
    /\ UNCHANGED <<streamVars, bundleVars, resultVars, splitVars, mainVars>>

\* the loop over the devices has ended: the batch is sent and the next cycle
\* starts, or send_batch raises and run() exits
SendBatch ==
    /\ pc = "emulating"
    /\ turn = Len(DEVICE_IDS) + 1
    /\ \E sent \in BOOLEAN :
         /\ pc' = IF sent THEN "emulating" ELSE "exited"
         /\ turn' = IF sent THEN 1 ELSE turn
    /\ UNCHANGED <<streamVars, bundleVars, resultVars, splitVars, mainVars, simulators,
                   rng, payload>>

NextEmulator ==
    \/ GenerateReading
    \/ SendBatch

SpecEmulator == InitEmulator /\ [][NextEmulator]_vars

---------------------------------------------------------------------------
(* The splitter's contract, under SpecSplit *)

Foundational(e) == get_order(e) < 99

SplitEntries == split_in.bundle.entry

Ceiling == split_in.max_entries

FoundationalCount == Len(SelectSeq(SplitEntries, Foundational))

\* the entries of the returned sub-bundles, joined in sub-bundle order
RECURSIVE JoinEntries(_)
JoinEntries(bundles) ==
    IF bundles = <<>> THEN <<>>
    ELSE Head(bundles).entry \o JoinEntries(Tail(bundles))

IsIn(e, entries) == \E i \in DOMAIN entries : entries[i] = e

\* C2: a call on a bundle of more than L entries whose foundational entries alone
\* number more than L returns, without raising, a non-empty sequence whose first
\* sub-bundle holds every foundational entry of the bundle.
C2_OversizedFoundationalKept ==
    (pc = "returned" /\ Len(SplitEntries) > Ceiling /\ FoundationalCount > Ceiling)
        => /\ ~split_out.raised
           /\ split_out.bundles # <<>>
           /\ \A i \in DOMAIN SplitEntries :
                 Foundational(SplitEntries[i])
                     => IsIn(SplitEntries[i], split_out.bundles[1].entry)

\* C3: for every bundle and every ceiling L >= 1 the call returns, and the
\* non-foundational entries of its sub-bundles, joined in sub-bundle order, are
\* the non-foundational entries of the input bundle in their input order.
C3_OthersOnceInOrder ==
    pc = "returned"
        => /\ ~split_out.raised
           /\ SelectSeq(JoinEntries(split_out.bundles), LAMBDA e : ~Foundational(e))
                 = SelectSeq(SplitEntries, LAMBDA e : ~Foundational(e))

\* C4: when the foundational entries alone do not exceed L, every sub-bundle
\* returned has at most L entries; a 900-entry bundle with 3 foundational entries
\* and L = 400 comes back as exactly 3 sub-bundles, the first of 400 entries,
\* carrying 897 non-foundational entries in all.
C4_SizeBound ==
    pc = "returned"
        => /\ FoundationalCount <= Ceiling
                 => \A k \in DOMAIN split_out.bundles :
                        Len(split_out.bundles[k].entry) <= Ceiling
           /\ (Len(SplitEntries) = 900 /\ FoundationalCount = 3 /\ Ceiling = 400)
                 => /\ ~split_out.raised
                    /\ Len(split_out.bundles) = 3
                    /\ Len(split_out.bundles[1].entry) = 400
                    /\ Len(SelectSeq(JoinEntries(split_out.bundles),
                                     LAMBDA e : ~Foundational(e))) = 897

\* the 900-entry scenario has been split, and a smaller bundle into several
\* sub-bundles that each stay within the ceiling
C4_Witness ==
    /\ pc = "returned"
    /\ Len(SplitEntries) = 900 /\ FoundationalCount = 3 /\ Ceiling = 400
    /\ Len(split_out.bundles) = 3
    /\ Len(split_out.bundles[3].entry) = 103

\* C5: for a bundle larger than L, every foundational entry is in the first
\* sub-bundle returned and in no later one, and in the first sub-bundle all
\* foundational entries come before all others.
C5_FoundationalOnlyFirst ==
    (pc = "returned" /\ Len(SplitEntries) > Ceiling)
        => /\ ~split_out.raised
           /\ split_out.bundles # <<>>
           /\ \A i \in DOMAIN SplitEntries :
                 Foundational(SplitEntries[i])
                     => /\ IsIn(SplitEntries[i], split_out.bundles[1].entry)
                        /\ \A k \in 2..Len(split_out.bundles) :
                              ~IsIn(SplitEntries[i], split_out.bundles[k].entry)
           /\ LET first == split_out.bundles[1].entry
              IN \A i, j \in DOMAIN first :
                    (Foundational(first[j]) /\ ~Foundational(first[i])) => j < i

---------------------------------------------------------------------------
(* The resolver's contract, under Spec *)

\* the rewrite loop has run: bundle.entry[i] is the rewritten before[i]
RewriteDone == before # <<>>

\* the reference fields: entry i, field j
Fields ==
    UNION {{<<i, j>> : j \in DOMAIN before[i].resource.refs} : i \in DOMAIN before}

InputRef(f) == before[f[1]].resource.refs[f[2]]

OutputRef(f) == bundle.entry[f[1]].resource.refs[f[2]]

Kind(e) == e.resource.resourceType

\* entry t of the bundle is known by a bundle-local temporary id
HasTemporaryId(t) == StartsWith(before[t].fullUrl, URN)

\* the final (kind, id) the loop gave entry t, as a Direct reference
FinalRef(t) == DirectRef(Kind(bundle.entry[t]), bundle.entry[t].resource.id)

\* C6 as stated: a reference field that held the temporary id of an entry of the
\* bundle, bare or kind-prefixed, holds the Direct form kind/id of that entry
\* after rewriting.
C6_TemporaryIdsBecomeDirect ==
    RewriteDone
        => \A f \in Fields : \A t \in DOMAIN before :
              (HasTemporaryId(t)
                  /\ InputRef(f) \in {before[t].fullUrl,
                                      DirectRef(Kind(before[t]), before[t].fullUrl)})
                  => OutputRef(f) = FinalRef(t)

\* C6 as amended: after rewriting, a field that held the kind-prefixed temporary
\* id of an entry holds the Direct form kind/id of that entry, and a field that
\* held the bare temporary id holds the entry's final id alone, with no kind.
C6_TemporaryIdsStripped ==
    RewriteDone
        => \A f \in Fields : \A t \in DOMAIN before :
              HasTemporaryId(t)
                  => /\ InputRef(f) = DirectRef(Kind(before[t]), before[t].fullUrl)
                           => OutputRef(f) = FinalRef(t)
                     /\ InputRef(f) = before[t].fullUrl
                           => OutputRef(f) = bundle.entry[t].resource.id

\* both shapes have been rewritten in reachable bundles
C6_Witness ==
    /\ RewriteDone
    /\ \E f \in Fields : \E t \in DOMAIN before :
          /\ HasTemporaryId(t)
          /\ InputRef(f) = DirectRef(Kind(before[t]), before[t].fullUrl)
          /\ OutputRef(f) = "Patient/p"
          /\ bundle.entry[t].request.url = "Patient/p"

\* the entries that declare the identifier a conditional reference names, with
\* a non-empty final id
Declarers(ref) ==
    {t \in DOMAIN before :
        /\ ResourceUuid(before[t]) # ""
        /\ \E k \in DOMAIN before[t].resource.identifier :
              LET d == before[t].resource.identifier[k]
              IN d.system # "" /\ d.value # ""
                    /\ ref = ConditionalRef(Kind(before[t]), d.system, d.value)}

\* C7: once a bundle is submitted, a field that held a conditional reference
\* K?identifier=S|V whose identifier an entry of kind K of the bundle declares
\* (with a non-empty final id) holds K/<final id> of such an entry, whatever
\* non-empty strings S and V are.
C7_DeclaredConditionalsResolved ==
    pc = "uploaded"
        => \A f \in Fields :
              Declarers(InputRef(f)) # {}
                  => \E t \in Declarers(InputRef(f)) : OutputRef(f) = FinalRef(t)

\* C8: a field whose input is a conditional reference that is no key of the
\* reference map has the same string value after the two rewriting passes.
C8_UnmappedConditionalsUnchanged ==
    RewriteDone
        => \A f \in Fields :
              (is_conditional_reference(InputRef(f)) /\ InputRef(f) \notin DOMAIN ref_map)
                  => OutputRef(f) = InputRef(f)

\* the source bundle holds the reference Location?identifier=sys|val and no
\* Location entry that declares (sys, val)
LocationScenario ==
    /\ \E i \in DOMAIN source.entry : \E j \in DOMAIN source.entry[i].resource.refs :
          source.entry[i].resource.refs[j] = LocationRef
    /\ \A i \in DOMAIN source.entry :
          Kind(source.entry[i]) = "Location"
              => \A k \in DOMAIN source.entry[i].resource.identifier :
                    source.entry[i].resource.identifier[k] # Identifier("sys", "val")

\* C9 as stated: in that bundle the field still holds the conditional reference
\* verbatim after stub injection, map building and rewriting.
C9_LocationRefVerbatim ==
    (RewriteDone /\ LocationScenario)
        => \A f \in Fields : InputRef(f) = LocationRef => OutputRef(f) = LocationRef

LocationStubId == UuidFormatted(Md5Hex("location-sys-val"))

\* C9 as amended: in that bundle a Location stub with the deterministic id
\* H("location-sys-val") is injected and, after map building and rewriting, the
\* field holds the Direct reference Location/<that id>.
C9_LocationRefResolvedToStub ==
    (RewriteDone /\ LocationScenario)
        => /\ \E t \in DOMAIN bundle.entry :
                 /\ Kind(bundle.entry[t]) = "Location"
                 /\ bundle.entry[t].resource.id = LocationStubId
                 /\ bundle.entry[t].resource.identifier = <<Identifier("sys", "val")>>
           /\ \A f \in Fields :
                 InputRef(f) = LocationRef
                     => OutputRef(f) = DirectRef("Location", LocationStubId)

C9_Witness ==
    /\ RewriteDone
    /\ LocationScenario
    /\ \E f \in Fields :
          InputRef(f) = LocationRef /\ OutputRef(f) = DirectRef("Location", LocationStubId)


\* the entries post_bundle accepted, in submission order
Submitted == JoinEntries(posted)

\* reference r names entry e by the final (kind, id) the processor gave it
Names(r, e) == e.resource.id # "" /\ r = DirectRef(Kind(e), e.resource.id)

NpiScenario ==
    /\ Cardinality({i \in DOMAIN source.entry : Kind(source.entry[i]) = "Patient"}) = 1
    /\ \E i \in DOMAIN source.entry :
          /\ Kind(source.entry[i]) = "Patient"
          /\ \E j \in DOMAIN source.entry[i].resource.refs :
                source.entry[i].resource.refs[j] = NpiRef
    /\ \A i \in DOMAIN source.entry :
          /\ Kind(source.entry[i]) # "Practitioner"
          /\ \A j \in DOMAIN source.entry[i].resource.refs :
                StartsWith(source.entry[i].resource.refs[j], "Practitioner?")
                    => source.entry[i].resource.refs[j] = NpiRef

PractitionerStubId == UuidFormatted(Md5Hex("practitioner-npi-1234567890"))

\* C10: the processed bundle of that scenario holds exactly one Practitioner
\* entry, its id the hash of "practitioner-npi-1234567890", placed before the
\* Patient entry, and the Patient's reference field holds Practitioner/<that id>.
C10_NpiStubResolved ==
    (RewriteDone /\ NpiScenario)
        => LET practitioners == {t \in DOMAIN bundle.entry :
                                    Kind(bundle.entry[t]) = "Practitioner"}
           IN /\ Cardinality(practitioners) = 1
              /\ \A t \in practitioners :
                    /\ bundle.entry[t].resource.id = PractitionerStubId
                    /\ bundle.entry[t].request.url
                          = DirectRef("Practitioner", PractitionerStubId)
                    /\ \A q \in DOMAIN bundle.entry :
                          Kind(bundle.entry[q]) = "Patient" => t < q
              /\ \A f \in Fields :
                    (Kind(before[f[1]]) = "Patient" /\ InputRef(f) = NpiRef)
                        => OutputRef(f) = DirectRef("Practitioner", PractitionerStubId)

\* the one-entry bundle of the scenario has been processed and submitted
C10_Witness ==
    /\ pc = "uploaded"
    /\ NpiScenario
    /\ Len(source.entry) = 1
    /\ Len(posted) = 1
    /\ Len(posted[1].entry) = 2
    /\ Kind(posted[1].entry[1]) = "Practitioner"
    /\ posted[1].entry[2].resource.refs = <<DirectRef("Practitioner", PractitionerStubId)>>

---------------------------------------------------------------------------
(* Stub injection, determinism and final ids, under Spec *)

\* entry e declares the identifier the conditional reference ref names
DeclaresRef(e, ref) ==
    \E k \in DOMAIN e.resource.identifier :
        LET d == e.resource.identifier[k]
        IN d.system # "" /\ d.value # ""
              /\ ref = ConditionalRef(Kind(e), d.system, d.value)

\* the entries stub injection has put in front of the source bundle's
InjectedStubs == SubSeq(bundle.entry, 1, Len(bundle.entry) - Len(source.entry))

\* C11: after stub injection, a conditional reference whose identifier an entry
\* of the referenced kind in the source bundle already declares has no stub:
\* none of the added entries declares that identifier.
C11_StubOnlyWhenMissing ==
    pc = "injected"
        => \A ref \in BundleConditionalRefs(source.entry) :
              (\E i \in DOMAIN source.entry : DeclaresRef(source.entry[i], ref))
                  => \A i \in DOMAIN InjectedStubs : ~DeclaresRef(InjectedStubs[i], ref)

\* the elements of a sequence
Range(seq) == {seq[i] : i \in DOMAIN seq}

\* the final entries of a run of the resolver on bundle b in which the three
\* sets of stub injection are iterated in the orders given
ResolvedEntries(b, orgs, npis, locs) ==
    LET reordered == reorder_bundle_entries(inject_referenced_resources(b, orgs, npis, locs))
    IN RewriteBundle(reordered, build_conditional_reference_map(reordered)).entry

\* the ids of the stubs of an injected bundle: its entries in front of the n
\* the source bundle had
StubIds(entries, n) == {entries[i].resource.id : i \in 1..(Len(entries) - n)}

\* C12: the final entries of the bundle being processed, as a set, and the ids
\* of its stubs are those of every other run of the resolver on an equal copy
\* of its source bundle, in whatever order that run iterates the collected
\* references and whatever was processed before this one.
C12_RunsAgree ==
    \A orgs \in Orderings(organization_refs(source.entry)),
       npis \in Orderings(practitioner_npis(source.entry)),
       locs \in Orderings(location_refs(source.entry)) :
        /\ pc = "injected"
              => StubIds(inject_referenced_resources(source, orgs, npis, locs).entry,
                         Len(source.entry))
                    = StubIds(bundle.entry, Len(source.entry))
        /\ pc = "rewritten"
              => LET other == ResolvedEntries(source, orgs, npis, locs)
                 IN /\ Range(other) = Range(bundle.entry)
                    /\ Len(other) = Len(bundle.entry)

\* a bundle with two Location stubs has been resolved after another bundle was
\* processed, and a run that iterates the references in another order ends
\* with the same entries in another sequence
C12_Witness ==
    /\ pc = "rewritten"
    /\ outcomes # <<>>
    /\ Cardinality(location_refs(source.entry)) = 2
    /\ \E locs \in Orderings(location_refs(source.entry)),
          npis \in Orderings(practitioner_npis(source.entry)) :
            LET other == ResolvedEntries(source, <<>>, npis, locs)
            IN other # bundle.entry /\ Range(other) = Range(bundle.entry)

\* C13 as stated: every entry handed to post_bundle has a non-empty id and the
\* request PUT <kind>/<id> with that id, whatever fullUrl and id its source
\* entry had.
C13_EveryEntryFinalId ==
    \A i \in DOMAIN Submitted :
        /\ Submitted[i].resource.id # ""
        /\ Submitted[i].request
              = [method |-> "PUT",
                 url |-> DirectRef(Kind(Submitted[i]), Submitted[i].resource.id)]

\* the id the loop reads off entry t: from its fullUrl, else its declared id
DerivedId(t) == ResourceUuid(before[t])

\* C13 as amended: every entry handed to post_bundle is an entry of the
\* rewritten bundle with the method PUT; an entry the loop derives a non-empty
\* id for carries that id and the request url <kind>/<id>; an entry it derives
\* none for has the request url <kind> alone and the id its source declared.
C13_FinalIdWhereDerived ==
    posted # <<>>
        => /\ \A i \in DOMAIN Submitted :
                 /\ Submitted[i].request.method = "PUT"
                 /\ \E t \in DOMAIN bundle.entry : Submitted[i] = bundle.entry[t]
           /\ \A t \in DOMAIN before :
                 /\ bundle.entry[t].request.method = "PUT"
                 /\ DerivedId(t) # ""
                       => /\ bundle.entry[t].resource.id = DerivedId(t)
                          /\ bundle.entry[t].request.url
                                = DirectRef(Kind(before[t]), DerivedId(t))
                 /\ DerivedId(t) = ""
                       => /\ bundle.entry[t].resource.id = before[t].resource.id
                          /\ bundle.entry[t].request.url = Kind(before[t])

\* an entry with neither fullUrl nor id, one whose fullUrl is the bare prefix
\* and one with a temporary id have been submitted
C13_Witness ==
    /\ pc = "uploaded"
    /\ \E i \in DOMAIN Submitted :
          \/ /\ Submitted[i].resource.id = ""
             /\ Submitted[i].request = [method |-> "PUT", url |-> "Observation"]
          \/ /\ Submitted[i].resource.id = "x"
             /\ Submitted[i].request = [method |-> "PUT", url |-> "Encounter"]
    /\ \E i \in DOMAIN Submitted :
          /\ Submitted[i].resource.id = "p"
          /\ Submitted[i].request = [method |-> "PUT", url |-> "Patient/p"]

---------------------------------------------------------------------------
(* The orderer, the reference map and the stages, under Spec *)

\* the kinds of the precedence table
Listed == {"Organization", "Practitioner", "PractitionerRole", "Location", "Patient"}

\* the entries of a list that have precedence k, in their order in the list
OfPrecedence(entries, k) == SelectSeq(entries, LAMBDA e : get_order(e) = k)

\* output is input sorted by precedence, stably
StableSortOf(input, output) ==
    /\ Len(output) = Len(input)
    /\ \A i, j \in DOMAIN output :
          i < j => /\ get_order(output[i]) <= get_order(output[j])
                   /\ Kind(output[i]) \notin Listed => Kind(output[j]) \notin Listed
    /\ \A k \in {get_order(input[i]) : i \in DOMAIN input}
                    \cup {get_order(output[i]) : i \in DOMAIN output} :
          OfPrecedence(output, k) = OfPrecedence(input, k)

\* C14: the entries reorder_bundle_entries leaves in the bundle are its input
\* entries, none lost or doubled, in which no entry comes before one of lower
\* precedence, unlisted kinds come after all listed ones, and the entries of
\* each precedence are in their input order.
C14_StableSortByPrecedence ==
    [][(pc = "injected" /\ pc' = "reordered")
           => StableSortOf(bundle.entry, bundle'.entry)]_vars

\* a bundle that began with an Encounter has been reordered: the Patient is in
\* front, the Encounter and the Observations behind it in their input order
C14_Witness ==
    /\ pc = "reordered"
    /\ Len(source.entry) > 2
    /\ Kind(source.entry[1]) = "Encounter"
    /\ Kind(source.entry[2]) = "Patient"
    /\ bundle.entry[1] = source.entry[2]
    /\ bundle.entry[2] = source.entry[1]
    /\ \A i \in 3..Len(source.entry) : bundle.entry[i] = source.entry[i]

\* the final id of entry t of the rewritten bundle: the id its request names,
\* "" when the request names none
FinalId(t) ==
    LET e == bundle.entry[t]
    IN IF e.resource.id # "" /\ e.request.url = DirectRef(Kind(e), e.resource.id)
       THEN e.resource.id
       ELSE ""

\* the entries with a final id that claim a conditional key
Claimants(key) ==
    {t \in DOMAIN bundle.entry : FinalId(t) # "" /\ DeclaresRef(bundle.entry[t], key)}

Last(S) == CHOOSE t \in S : \A u \in S : u <= t

\* C15: the reference map built for the bundle has, for every entry with a
\* non-empty final id and every identifier of it with non-empty system and
\* value, the key <kind>?identifier=<system>|<value>, and its value is
\* <kind>/<final id> of the last entry in the bundle's order that claims the key.
C15_LastWriteWins ==
    pc = "rewritten"
        => \A t \in DOMAIN bundle.entry :
              \A k \in DOMAIN bundle.entry[t].resource.identifier :
                 LET d == bundle.entry[t].resource.identifier[k]
                     key == ConditionalRef(Kind(bundle.entry[t]), d.system, d.value)
                 IN (FinalId(t) # "" /\ d.system # "" /\ d.value # "")
                       => /\ key \in DOMAIN ref_map
                          /\ ref_map[key]
                                = DirectRef(Kind(bundle.entry[Last(Claimants(key))]),
                                            FinalId(Last(Claimants(key))))

\* a Practitioner stub and a Practitioner of the source bundle claim the same
\* key, and the map names the later of the two
C15_Witness ==
    /\ pc = "rewritten"
    /\ \E t, u \in Claimants(NpiRef) :
          /\ t < u
          /\ FinalId(t) = PractitionerStubId
          /\ FinalId(u) = "d"
    /\ ref_map[NpiRef] = "Practitioner/d"

\* the stages in the order the claim gives them
StagesAsStated == <<"injected", "mapped", "rewritten", "reordered", "split">>

\* the stages in the order of the processor's statements
StagesInCode == <<"injected", "reordered", "mapped", "rewritten", "split">>

\* C16 as stated: a bundle of which a sub-bundle has been submitted went
\* through stub injection, map building, rewriting, reordering and splitting in
\* this order, the map being built before the entries were reordered.
C16_MapBeforeReorder ==
    posted # <<>> => stages = StagesAsStated

\* C16 as amended: the stages of a bundle are performed in the order stub
\* injection, reordering, map building, rewriting, splitting, submission; the
\* reference map is built from the entries as reordered, and nothing is
\* submitted before all five stages are done.
C16_ReorderBeforeMap ==
    /\ Len(stages) <= Len(StagesInCode)
    /\ stages = SubSeq(StagesInCode, 1, Len(stages))
    /\ posted # <<>> => stages = StagesInCode
    /\ pc = "mapped"
          => /\ \A i, j \in DOMAIN bundle.entry :
                   i < j => get_order(bundle.entry[i]) <= get_order(bundle.entry[j])
             /\ \A key \in DOMAIN ref_map :
                   \E t \in DOMAIN bundle.entry : DeclaresRef(bundle.entry[t], key)

\* a bundle whose source order the orderer changed, and that has an entry in
\* the reference map, has been submitted
C16_Witness ==
    /\ pc = "uploaded"
    /\ posted # <<>>
    /\ stages = StagesInCode
    /\ Kind(source.entry[1]) = "Encounter"
    /\ Kind(Submitted[1]) = "Patient"
    /\ DOMAIN ref_map = {EncounterRef}

---------------------------------------------------------------------------
(* Eligibility decisions, failures and the order of submission, under Spec *)

\* C17 as stated: every eligibility decision about the bundle being processed,
\* the gate and the qualifying-condition check, was made while no sub-bundle
\* of it had been submitted, on the entries of the bundle as received.
C17_DecisionsBeforeSubmission ==
    \A i \in DOMAIN decided :
        /\ decided[i].submitted = 0
        /\ decided[i].entries = source.entry

\* C17 as amended: the gate is decided first, on the entries as received and
\* before stub injection and any submission, and only a bundle that passes it
\* goes on; the qualifying-condition check is made after every sub-bundle the
\* splitter returned has been submitted, on the entries as injected, reordered
\* and rewritten, and its outcome is the one the entries as received give.
C17_GateBeforeQualifyingAfter ==
    /\ \A i \in DOMAIN decided :
          /\ decided[i].decision = "gate"
                => /\ i = 1
                   /\ decided[i].entries = source.entry
                   /\ decided[i].submitted = 0
          /\ decided[i].decision = "qualifying"
                => /\ i = 2
                   /\ stages = StagesInCode
                   /\ posted = sub_bundles
                   /\ decided[i].submitted = Len(sub_bundles)
                   /\ decided[i].entries = bundle.entry
                   /\ decided[i].entries # source.entry
                   /\ decided[i].outcome = has_qualifying_condition(source)
    /\ stages # <<>>
          => /\ decided # <<>>
             /\ decided[1].decision = "gate"
             /\ decided[1].outcome

\* a pediatric CHOA patient's bundle with a qualifying condition has passed the
\* gate, been submitted and then been found qualifying
C17_Witness ==
    /\ pc = "uploaded"
    /\ is_choa_patient(source)
    /\ Len(decided) = 2
    /\ decided[2].decision = "qualifying"
    /\ decided[2].outcome
    /\ decided[2].submitted = 1
    /\ qualifying_patients # <<>>

\* the places in the listing of the Bundle documents among the first n blobs
BundlePlaces(n) ==
    {i \in 1..n : /\ json_blobs[i].download = "ok"
                  /\ json_blobs[i].content.resourceType = "Bundle"}

\* the positions at which a statement of the generator or of the loop body is
\* about to run
Running ==
    {"stream", "received", "eligible", "injected", "reordered", "mapped", "rewritten",
     "split"}

\* C18: an error raised while a bundle is processed, by a resolver stage or by
\* post_bundle, does not end the run: whenever the body of the loop has ended,
\* in an error or not, the loop takes the next bundle of the batch or asks the
\* generator for the next batch, the generator and the submission loop always
\* have a next step, and when the processor returns the body has run, to one
\* outcome each, for every Bundle document of the listing.
C18_FailureDoesNotEndTheLoad ==
    /\ pc \notin Running
          => pc = "returned" \/ ENABLED TakeBundle \/ ENABLED BatchDone
    /\ pc = "stream" => ENABLED Download \/ ENABLED StreamEnd
    /\ pc = "split" => ENABLED PostOk \/ next_sub > Len(sub_bundles)
    /\ Len(outcomes) <= Cardinality(BundlePlaces(Len(json_blobs)))
    /\ pc = "returned"
          => Len(outcomes) = Cardinality(BundlePlaces(Len(json_blobs)))

\* the submission of the first bundle of a listing of two batches failed; the
\* next bundle of its batch and a bundle of the second batch were uploaded,
\* and the processor has returned
C18_Witness ==
    /\ pc = "returned"
    /\ Len(delivered) = 2
    /\ Len(outcomes) = BATCH_SIZE + 2
    /\ outcomes[1] = "failed"
    /\ outcomes[2] = "uploaded"
    /\ outcomes[BATCH_SIZE + 2] = "uploaded"
    /\ uploaded_count = 2

\* C19: the sub-bundles submitted so far are the first ones the splitter
\* returned, in its order; the next to be submitted is the one after them; once
\* a submission has failed no sub-bundle of the bundle can be submitted and the
\* bundle is not counted.
C19_SubBundlesInOrder ==
    /\ Len(posted) <= Len(sub_bundles)
    /\ posted = SubSeq(sub_bundles, 1, Len(posted))
    /\ pc = "split" => next_sub = Len(posted) + 1
    /\ pc = "uploaded" => posted = sub_bundles
    /\ pc = "failed" => ~ENABLED PostOk /\ ~ENABLED Uploaded

\* of two sub-bundles the first was submitted and the second failed
C19_Witness ==
    /\ pc = "failed"
    /\ Len(sub_bundles) = 2
    /\ posted = <<sub_bundles[1]>>

---------------------------------------------------------------------------
(* Batching, under SpecStream *)

RECURSIVE Flatten(_)
Flatten(batches) ==
    IF batches = <<>> THEN <<>> ELSE Head(batches) \o Flatten(Tail(batches))

\* the places handed to a batch so far, in the order they were handed over:
\* the batches yielded and the batch the generator is filling
Batched == Flatten(delivered) \o (IF gen = "loop" THEN batch ELSE <<>>)

\* C20: the Bundle documents downloaded so far are, in listing order and each
\* once, the documents of the batches; failed downloads and other documents are
\* in none; no batch is empty or larger than batch_size and every batch but the
\* final one has exactly batch_size documents; while the consumer works on a
\* batch no document beyond that batch has been downloaded; and the stream ends
\* only when the listing is exhausted.
C20_BatchesInOrderAndLazy ==
    /\ Len(Batched) = Cardinality(BundlePlaces(next_blob))
    /\ \A k \in DOMAIN Batched : Batched[k] \in BundlePlaces(next_blob)
    /\ \A k, l \in DOMAIN Batched : k < l => Batched[k] < Batched[l]
    /\ \A n \in DOMAIN delivered :
          /\ delivered[n] # <<>>
          /\ Len(delivered[n]) <= batch_size
          /\ Len(delivered[n]) = batch_size
                \/ (n = Len(delivered) /\ gen \in {"final", "done"})
    /\ pc \notin {"stream", "returned"}
          => /\ delivered # <<>>
             /\ batch = delivered[Len(delivered)]
             /\ \A i \in BundlePlaces(next_blob) :
                   \E n \in DOMAIN delivered : \E k \in DOMAIN delivered[n] :
                       delivered[n][k] = i
             /\ Len(outcomes) + (Len(batch) - batch_pos)
                    + (IF pc \in Running THEN 1 ELSE 0)
                   = Cardinality(BundlePlaces(next_blob))
    /\ pc = "returned"
          => /\ next_blob = Len(json_blobs)
             /\ Len(Flatten(delivered)) = Cardinality(BundlePlaces(Len(json_blobs)))

\* a listing whose second download fails has been streamed in batches of two:
\* a full batch of the first and third document, then the fourth alone
C20_Witness ==
    /\ pc = "returned"
    /\ batch_size = 2
    /\ Len(json_blobs) = 4
    /\ json_blobs[2].download = "error"
    /\ delivered = <<<<1, 3>>, <<4>>>>
    /\ Len(outcomes) = 3

---------------------------------------------------------------------------
(* The retry loops, under SpecMain *)

\* the sleeps of one of the two loops
SleepsOf(loop) == SelectSeq(sleeps, LAMBDA z : z.loop = loop)

\* no attempt of the loop has succeeded and none is left to make
AllFailed(calls) ==
    /\ calls # <<>>
    /\ \A i \in DOMAIN calls : calls[i] # "ok"
    /\ Len(calls) = 12 \/ calls[Len(calls)] = "other"

Fatal == {"exited", "raised"}

\* the calls of a loop hold no attempt after a successful one
StopsAtSuccess(calls) == \A i \in DOMAIN calls : calls[i] = "ok" => i = Len(calls)

\* a sleep of the fixed delay lies between every two attempts of a loop and
\* nowhere else
DelayBetweenAttempts(calls, loop, running) ==
    /\ \A i \in DOMAIN sleeps : sleeps[i].seconds = 10
    /\ Len(SleepsOf(loop)) =
           IF calls = <<>> THEN 0 ELSE IF running THEN Len(calls) ELSE Len(calls) - 1

C21_Attempts ==
    /\ Len(fhir_calls) <= 12 /\ Len(list_calls) <= 12
    /\ StopsAtSuccess(fhir_calls) /\ StopsAtSuccess(list_calls)
    /\ DelayBetweenAttempts(fhir_calls, "fhir", pc = "main")
    /\ DelayBetweenAttempts(list_calls, "storage", pc = "listing")
    /\ AllFailed(fhir_calls) => pc = "exited"
    /\ AllFailed(list_calls) => pc = "raised"
    /\ pc \in Fatal => AllFailed(fhir_calls) \/ AllFailed(list_calls)
    /\ AllFailed(fhir_calls) \/ AllFailed(list_calls) =>
           /\ posted = <<>> /\ outcomes = <<>> /\ delivered = <<>>
           /\ next_blob = 0 /\ uploaded_count = 0
    /\ list_calls # <<>> => fhir_calls # <<>> /\ fhir_calls[Len(fhir_calls)] = "ok"
    /\ pc \notin {"main", "connected", "listing"} \cup Fatal =>
           list_calls # <<>> /\ list_calls[Len(list_calls)] = "ok"

\* C21: the connection test of main and the storage listing of
\* stream_synthea_bundles are each attempted at most 12 times, with a sleep of
\* 10 seconds between two attempts; when every attempt of one of them has failed
\* the run has ended (sys.exit or an exception no one catches), for good, and no
\* bundle was downloaded or submitted; nothing is attempted after an attempt
\* that succeeded, and nothing is downloaded or submitted before both succeeded.
C21_RetriesCappedThenFatal ==
    /\ []C21_Attempts
    /\ [][pc \notin Fatal]_vars

\* the connection test succeeds at its 12th attempt and the listing fails 12
\* times with an RBAC error
C21_Witness ==
    /\ pc = "raised"
    /\ Len(fhir_calls) = 12 /\ fhir_calls[12] = "ok"
    /\ Len(list_calls) = 12 /\ list_calls[12] = "rbac"
    /\ Len(SleepsOf("fhir")) = 11 /\ Len(SleepsOf("storage")) = 11

---------------------------------------------------------------------------
(* What counts as uploaded, under Spec *)

\* how often e occurs in a list of entries
Occurrences(e, entries) == Cardinality({i \in DOMAIN entries : entries[i] = e})

\* C22: when the processor has counted a bundle as uploaded, the entries of the
\* accepted sub-bundles are the entries of the bundle (as they are after stub
\* injection, reordering and rewriting), each as often as the bundle holds it,
\* so each was sent in exactly one sub-bundle and none was left out.
C22_CountedMeansAllSubmitted ==
    pc = "uploaded" =>
        /\ Len(posted) = Len(sub_bundles)
        /\ Len(Submitted) = Len(bundle.entry)
        /\ \A i \in DOMAIN bundle.entry :
               Occurrences(bundle.entry[i], Submitted)
                   = Occurrences(bundle.entry[i], bundle.entry)

---------------------------------------------------------------------------
(* The gates, under Spec *)

NoPatient(b) == get_patient_from_bundle(b) = <<>>

\* the bundle's first Encounter with a serviceProvider reference names a CHOA
\* organization and its patient is not pediatric
ChoaAdult(b) ==
    /\ ~NoPatient(b)
    /\ is_choa_patient(b)
    /\ ~is_pediatric(get_patient_from_bundle(b)[1])

\* the 21st birthday of someone born on the date d lies after today
Under21(d) ==
    \/ d.year + 21 > Today.year
    \/ /\ d.year + 21 = Today.year
       /\ d.month > Today.month \/ (d.month = Today.month /\ d.day > Today.day)

\* the birthDate of the bundle's patient, as a date: <<>> when it is absent or
\* is no date of the form YYYY-MM-DD
BirthDateOf(b) == ParseDate(get_patient_from_bundle(b)[1].birthDate)

\* the bundle the k-th outcome of the run belongs to
Decided(k) == json_blobs[Flatten(delivered)[k]].content

\* the positions of the loop body past the gates
PastGates ==
    {"eligible", "injected", "reordered", "mapped", "rewritten", "split", "uploaded",
     "failed"}

\* C23: a bundle with no Patient entry, and a bundle of a CHOA organization whose
\* patient is not pediatric, is never changed by stub injection or any later
\* stage and no sub-bundle of it is submitted; the loop takes the next bundle
\* (or ends the batch) after it; the bundles that end as skipped are exactly
\* these, and the skipped counter counts those of the second kind. Where the
\* patient's birthDate is a date, not pediatric means that the 21st birthday is
\* today or has passed.
C23_GatedBundlesUntouched ==
    /\ source # EmptyBundle /\ (NoPatient(source) \/ ChoaAdult(source)) =>
           /\ pc \notin PastGates
           /\ bundle = source
           /\ stages = <<>>
           /\ posted = <<>>
    /\ pc = "skipped" => ENABLED TakeBundle \/ ENABLED BatchDone
    /\ \A k \in DOMAIN outcomes :
           outcomes[k] = "skipped" <=> NoPatient(Decided(k)) \/ ChoaAdult(Decided(k))
    /\ \A k \in DOMAIN outcomes :
           LET b == Decided(k)
           IN ~NoPatient(b) /\ is_choa_patient(b) /\ BirthDateOf(b) # <<>> =>
                  (outcomes[k] = "skipped" <=> ~Under21(BirthDateOf(b)[1]))
    /\ skipped_choa_adult
           = Cardinality({k \in DOMAIN outcomes : ChoaAdult(Decided(k))})
    /\ uploaded_count
           <= Cardinality({k \in DOMAIN outcomes :
                              ~(NoPatient(Decided(k)) \/ ChoaAdult(Decided(k)))})

\* a birthDate that gives the year alone, as FHIR's date type allows
YearOnly(s) == Len(s) = 4 /\ AllDigits(s)

\* the patient's age from birthDate is under 21: the birthDate is a date, or a
\* year, and the 21st birthday is still to come
AgeUnder21(p) ==
    LET d == ParseDate(p.birthDate)
    IN IF d # <<>> THEN Under21(d[1])
       ELSE YearOnly(p.birthDate) /\ DigitsValue(p.birthDate) + 21 > Today.year

\* the bundle's first Encounter with a serviceProvider reference names a CHOA
\* organization and its patient's age from birthDate is not under 21
ChoaNotUnder21(b) ==
    /\ ~NoPatient(b)
    /\ is_choa_patient(b)
    /\ ~AgeUnder21(get_patient_from_bundle(b)[1])

\* C23, with pediatric read as an age under 21 from birthDate: a bundle with no
\* Patient entry, and a bundle of a CHOA organization whose patient's age is not
\* under 21, never gets past the gates, is not changed and has no sub-bundle
\* submitted, and ends as skipped.
C23_NotUnder21NeverSubmitted ==
    /\ source # EmptyBundle /\ (NoPatient(source) \/ ChoaNotUnder21(source)) =>
           /\ pc \notin PastGates
           /\ bundle = source
           /\ stages = <<>>
           /\ posted = <<>>
    /\ \A k \in DOMAIN outcomes :
           NoPatient(Decided(k)) \/ ChoaNotUnder21(Decided(k)) => outcomes[k] = "skipped"
    /\ skipped_choa_adult
           = Cardinality({k \in DOMAIN outcomes : ChoaNotUnder21(Decided(k))})

\* a listing of an adult's CHOA bundle and a bundle with no Patient has been
\* worked off: both were passed over, one was counted as skipped
C23_Witness ==
    /\ pc = "returned"
    /\ Len(json_blobs) = 2
    /\ ChoaAdult(json_blobs[1].content)
    /\ NoPatient(json_blobs[2].content)
    /\ outcomes = <<"skipped", "skipped">>
    /\ skipped_choa_adult = 1
    /\ uploaded_count = 0

---------------------------------------------------------------------------
(* The qualifying patients, under SpecDevices *)

\* the step appends one patient to the list
AppendsPatient == qualifying_patients' # qualifying_patients

\* the list grows by the record of the current bundle's patient, and only when
\* the splitter's sub-bundles have all been accepted, none refused
AppendedAfterSubmission ==
    /\ pc = "split"
    /\ posted = sub_bundles
    /\ next_sub = Len(sub_bundles) + 1
    /\ Len(outcomes') = Len(outcomes) + 1
    /\ outcomes'[Len(outcomes')] = "uploaded"
    /\ has_qualifying_condition(source)
    /\ qualifying_patients' = Append(qualifying_patients, QualifyingPatient(patient[1]))

\* C24: the list of qualifying patients never has more than DEVICE_COUNT
\* elements, and a step that appends a patient to it is taken only when every
\* sub-bundle of that patient's bundle has been submitted and accepted.
C24_CappedAndAfterSubmission ==
    /\ [](Len(qualifying_patients) <= device_count)
    /\ [][AppendsPatient => AppendedAfterSubmission]_vars

\* three bundles with a qualifying condition were uploaded under a
\* DEVICE_COUNT of 2: the third patient was not recorded
C24_Witness ==
    /\ pc = "returned"
    /\ device_count = 2
    /\ uploaded_count = 3
    /\ Len(decided) = 2 /\ decided[2].decision = "qualifying" /\ decided[2].outcome
    /\ Len(qualifying_patients) = 2
    /\ qualifying_patients[1].isPediatric /\ ~qualifying_patients[2].isPediatric

---------------------------------------------------------------------------
(* Duplicate entries, under Spec *)

\* the entries at places i and j are submitted under the same kind and id
SameKindAndId(entries, i, j) ==
    /\ Kind(entries[i]) = Kind(entries[j])
    /\ entries[i].resource.id # ""
    /\ entries[i].resource.id = entries[j].resource.id

HasDuplicate(entries) ==
    \E i, j \in DOMAIN entries : i < j /\ SameKindAndId(entries, i, j)

\* the source bundle itself holds two entries of one kind that the rewrite loop
\* gives the same id
SourceHasDuplicate ==
    \E i, j \in DOMAIN source.entry :
        /\ i < j
        /\ Kind(source.entry[i]) = Kind(source.entry[j])
        /\ ResourceUuid(source.entry[i]) # ""
        /\ ResourceUuid(source.entry[i]) = ResourceUuid(source.entry[j])

\* C25: when the entries of the source bundle differ in their (kind, id), no
\* sub-bundle handed to post_bundle holds two entries with the same (kind, id):
\* the stubs differ from each other and from the source's entries.
C25_NoDuplicateInSubBundle ==
    pc = "split" /\ ~SourceHasDuplicate =>
        \A n \in DOMAIN sub_bundles : ~HasDuplicate(sub_bundles[n].entry)

---------------------------------------------------------------------------
(* Stubs and the references that cause them, under Spec *)

\* inject_referenced_resources adds a stub on account of the reference r
CausesStub(r) ==
    \/ StartsWith(r, NPI_PREFIX)
    \/ /\ ~StartsWith(r, NPI_PREFIX)
       /\ StartsWith(r, "Location?")
       /\ create_location_from_ref(r) # <<>>
    \/ /\ ~StartsWith(r, NPI_PREFIX)
       /\ ~StartsWith(r, "Location?")
       /\ StartsWith(r, "Organization?")
       /\ create_organization_from_ref(r) # <<>>

\* an entry of the bundle holds the reference r
Holds(entries, r) ==
    \E i \in DOMAIN entries : \E j \in DOMAIN entries[i].resource.refs :
        entries[i].resource.refs[j] = r

\* C26: once the bundle is rewritten, every conditional reference of the source
\* bundle that caused a stub is a key of the reference map, and no entry of the
\* bundle, so no submitted entry, still holds it.
C26_StubResolvesItsReference ==
    RewriteDone =>
        \A r \in BundleConditionalRefs(source.entry) :
            CausesStub(r) =>
                /\ r \in DOMAIN ref_map
                /\ ~Holds(bundle.entry, r)
                /\ ~Holds(Submitted, r)

---------------------------------------------------------------------------
(* The simulators' ranges, under SpecEmulator *)

InRanges(r) ==
    /\ 88000 <= r.spo2 /\ r.spo2 <= 100000
    /\ 50000 <= r.pr /\ r.pr <= 140000
    /\ 500 <= r.pi /\ r.pi <= 10000
    /\ 5000 <= r.pvi /\ r.pvi <= 30000

\* the simulator whose generate_reading the step calls
Called == DEVICE_IDS[turn]

\* C27: the vital signs of every simulator are within 88..100 (spo2), 50..140
\* (pr), 0.5..10 (pi) and 5..30 (pvi) in every state, so are the four values of
\* every payload that generate_reading returns, and a call of generate_reading
\* leaves the vital signs of every simulator but the called one as they were.
C27_RangesAndIsolation ==
    /\ [](\A d \in DOMAIN simulators : InRanges(simulators[d]))
    /\ [](payload # NoPayload => InRanges(payload.telemetry))
    /\ [][\A d \in DOMAIN simulators :
              simulators'[d] # simulators[d] => turn \in DOMAIN DEVICE_IDS /\ d = Called]_vars

\* the first simulator has come down to the lower limit of each of its signs
\* and has emitted them, while the pi of the second is still above it
C27_Witness ==
    /\ simulators[1].spo2 = 88000 /\ simulators[1].pr = 50000
    /\ simulators[1].pi = 500 /\ simulators[1].pvi = 5000
    /\ payload.device_id = 1
    /\ payload.telemetry.spo2 = 88000 /\ payload.telemetry.pi = 500
    /\ simulators[2].pi > 500

=============================================================================
